---- MODULE Spec2Model ----
(***************************************************************************)
(* A model of the selenium-ui-boilerplate harness: WebDriverManager        *)
(* (utils/setup.js), BaseTest (utils/BaseTest.js) and ElementHelper        *)
(* (utils/ElementHelper.js).  The program is single-threaded JavaScript:   *)
(* one action of the model is the code that runs between two awaits, i.e.  *)
(* the settling of the awaited remote command together with all the        *)
(* synchronous code up to the next await (or to the end of the call).      *)
(* The remote browser is the environment: every remote command may         *)
(* resolve or reject.                                                      *)
(***************************************************************************)
EXTENDS Integers, Sequences, FiniteSets, TLC

(***************************************************************************)
(* Bounds of the model.                                                    *)
(***************************************************************************)
\* sessions that builder.build() may create in one run
MaxSessions == 2
\* largest maxRetries argument passed to navigateTo / clickElement
MaxRetriesArg == 2
\* the most window handles getAllWindowHandles reports
MaxWindows == 2
\* the most controls findElements reports
MaxButtons == 2
\* the handles a lookup may resolve with
MaxHandles == 2
\* the most calls of one recorded run
MaxCalls == 5
\* the most screenshot files written
MaxCaptures == 2
\* test files handed to the sequencer
MaxTests == 3

(***************************************************************************)
(* Program constants.                                                      *)
(***************************************************************************)
\* this.retries = 3 (WebDriverManager constructor)
Retries == 3
\* navigateTo(url, maxRetries = 2), clickElement(locator, maxRetries = 2)
DefaultMaxRetries == 2
\* `timeout = 5000` of findElement, `timeout = 1000` of elementExists
FindTimeout == 5000
ExistsTimeout == 1000
\* the maxRetries arguments of the model: the default and every count up to the bound
RetryArgs == (0..MaxRetriesArg) \cup {DefaultMaxRetries}

(***************************************************************************)
(* Strings are sequences of one-character strings, so that toLowerCase,    *)
(* === and String.prototype.includes are computed, not assumed.            *)
(***************************************************************************)
UpperAlpha == <<"A","B","C","D","E","F","G","H","I","J","K","L","M",
                "N","O","P","Q","R","S","T","U","V","W","X","Y","Z">>
LowerAlpha == <<"a","b","c","d","e","f","g","h","i","j","k","l","m",
                "n","o","p","q","r","s","t","u","v","w","x","y","z">>

LowerChar(c) ==
  IF \E i \in 1..26 : UpperAlpha[i] = c
    THEN LowerAlpha[CHOOSE i \in 1..26 : UpperAlpha[i] = c]
    ELSE c

toLowerCase(s) == [i \in 1..Len(s) |-> LowerChar(s[i])]

includes(s, sub) ==
  \E i \in 0..(Len(s) - Len(sub)) : SubSeq(s, i + 1, i + Len(sub)) = sub

S_chrome == <<"c","h","r","o","m","e">>
S_firefox == <<"f","i","r","e","f","o","x">>
S_login == <<"/","l","o","g","i","n">>

\* values of process.env.BROWSER; <<>> is unset (or empty), which is falsy
EnvBrowsers ==
  { <<>>, S_chrome, <<"C","h","r","o","m","e">>,
    <<"F","I","R","E","F","O","X">>, <<"s","a","f","a","r","i">> }

\* the location of a freshly built session
U_blank == <<"d","a","t","a",":",",">>
U_login == <<"h","/","l","o","g","i","n">>
U_loginNext == <<"h","/","l","o","g","i","n","?","n">>
U_secure == <<"h","/","s","e","c","u","r","e">>
\* the urls the tests navigate to, and where a load may land
Urls == { U_login, U_loginNext, U_secure }

(***************************************************************************)
(* Errors.  msg identifies the error; attempts is the attempt count that   *)
(* the message names (0 when the message names none).                      *)
(***************************************************************************)
Err(m, n) == [msg |-> m, attempts |-> n]
NoError == Err("none", 0)
\* the value of a `let lastError;` that was never assigned
Undefined == Err("undefined", 0)
\* errors the remote end (selenium-webdriver) raises
RemoteErrors == { Err("remote1", 0), Err("remote2", 0) }

\* the error of a rejected getCurrentUrl, which navigateTo's empty catch drops
PreCheckErrors == { Err("remote1", 0) }

UnsupportedBrowser == Err("Unsupported browser", 0)
NotInitialized == Err("WebDriver not initialized", 0)
ElementNotFound == Err("Element not found", 0)
FailedToCreate(n) == Err("Failed to create driver after n attempts", n)
FailedToNavigate(n) == Err("Failed to navigate after n attempts", n)

Null == 0

VARIABLES
  bt,        \* the BaseTest instance: driverManager, driver, elementHelper
  manager,   \* the WebDriverManager that bt.driverManager references
  sessions,  \* the sessions builder.build() has created, by id
  op,        \* the call in progress: its name and arguments
  pc,        \* the await the call in progress is suspended at
  attempt,   \* `attempt` of the retry loop in progress
  lastError, \* `lastError` of the retry loop in progress
  element,   \* `element` of clickElement: the handle of the last lookup
  events,    \* history of the call in progress: commands, delays, log lines
  result,    \* how the finished call ended
  prev,      \* summary of the navigateTo call that ended just before
  locals,    \* arguments and local consts of the call in progress
  world      \* outside the objects: the form of the page, the writes the
             \* screenshots directory has received, the calls of a recorded run

vars == <<bt, manager, sessions, op, pc, attempt, lastError, element,
          events, result, prev, locals, world>>


(***************************************************************************)
(* Records of the model.                                                   *)
(***************************************************************************)
\* new WebDriverManager(): driver, browser and retries as the constructor sets them
NewWebDriverManager(env) ==
  [ driver |-> Null,
    browser |-> toLowerCase(IF env # <<>> THEN env ELSE S_chrome),
    retries |-> Retries ]

\* the value of `manager` while bt.driverManager is null (no manager is reachable)
NoManager == [driver |-> Null, browser |-> <<>>, retries |-> 0]

\* new BaseTest()
NewBaseTest == [driverManager |-> 0, driver |-> Null, elementHelper |-> Null]

\* a session as builder.build() returns it: default timeouts, open, never quit
NewSession == [url |-> U_blank, timeouts |-> FALSE, quitCalls |-> 0, closed |-> FALSE]

Idle == [name |-> "idle", url |-> <<>>, maxRetries |-> 0]
Call(n) == [name |-> n, url |-> <<>>, maxRetries |-> 0]
NoResult == [status |-> "none", value |-> Null, err |-> NoError]
NoPrev == [url |-> <<>>, gets |-> 0, status |-> "none", landed |-> <<>>]
NoLocals == [of |-> "none"]
\* a page without form fields, no file written, no call recorded
NoWorld == [form |-> <<>>, files |-> <<>>, seen |-> <<>>]

\* history: a remote command on session s that resolved (err = NoError) or
\* rejected with err; a delay; a log line; the return or throw of a method
\* (v is the value a resolved getCurrentUrl reported)
Ev(k, s, e) == [k |-> k, s |-> s, err |-> e, v |-> <<>>]
EvSeen(k, s, v) == [k |-> k, s |-> s, err |-> NoError, v |-> v]
LogEv(level, e) == Ev(level, Null, e)

Count(k) == Cardinality({ i \in 1..Len(events) : events[i].k = k })
CountOk(k) == Cardinality({ i \in 1..Len(events) : events[i].k = k /\ events[i].err = NoError })
CountFailed(k) == Cardinality({ i \in 1..Len(events) : events[i].k = k /\ events[i].err # NoError })

Init ==
  /\ bt = NewBaseTest
  /\ manager = NoManager
  /\ sessions = <<>>
  /\ op = Idle
  /\ pc = "idle"
  /\ attempt = 0
  /\ lastError = Undefined
  /\ element = Null
  /\ events = <<>>
  /\ result = NoResult
  /\ prev = NoPrev
  /\ locals = NoLocals
  /\ world = NoWorld

(***************************************************************************)
(* Control: suspend at the next await, or end the call in progress.        *)
(***************************************************************************)
Goto(p, a, le, evs) ==
  /\ pc' = p
  /\ attempt' = a
  /\ lastError' = le
  /\ events' = events \o evs
  /\ result' = result
  /\ locals' = locals
  /\ world' = world

Done(st, v, e, evs) ==
  /\ pc' = "done"
  /\ attempt' = 0
  /\ lastError' = Undefined
  /\ events' = events \o evs
  /\ result' = [status |-> st, value |-> v, err |-> e]
  /\ locals' = locals
  /\ world' = world

(***************************************************************************)
(* WebDriverManager.createDriver and BaseTest.setupSuite                   *)
(***************************************************************************)
SupportedBrowserAny(b) == TRUE

\* createDriver: this.browser === 'chrome' / 'firefox', else throw
SupportedBrowser(b) == b = S_chrome \/ b = S_firefox

cdr_loop_short(a, retries) == a < retries

\* _createDriverWithRetry: the loop test attempt <= this.retries
cdr_loop(a, retries) == a <= retries

cdr_delay_always(a, retries) == TRUE

\* _createDriverWithRetry: if (attempt < this.retries) await delay
cdr_delay(a, retries) == a < retries

cdr_catch_first(le, e) == IF le = Undefined THEN e ELSE le

\* _createDriverWithRetry: lastError = error
cdr_catch(le, e) == e

\* _createDriverWithRetry: throw lastError || new Error(...)
cdr_throw(le, retries) == IF le # Undefined THEN le ELSE FailedToCreate(retries)

\* (variant: a setupSuite whose catch drops the manager it created)
CreateDriverThrows_reset(b, e, caller, evs) ==
  /\ bt' = [b EXCEPT !.driverManager = 0]
  /\ Done("threw", Null, e,
          evs \o <<LogEv("log.error", e), Ev("createDriver.throw", Null, e)>>
              \o (IF caller = "setupSuite" THEN <<LogEv("log.error", e)>> ELSE <<>>))

\* createDriver's catch logs and rethrows; so does setupSuite's catch.
\* b is the BaseTest as the caller left it.
CreateDriverThrows(b, e, caller, evs) ==
  /\ bt' = b
  /\ Done("threw", Null, e,
          evs \o <<LogEv("log.error", e), Ev("createDriver.throw", Null, e)>>
              \o (IF caller = "setupSuite" THEN <<LogEv("log.error", e)>> ELSE <<>>))

\* createDriver returns this.driver; setupSuite stores it and wraps it in an
\* ElementHelper
CreateDriverReturns(s, caller, evs) ==
  LET evs2 == evs \o <<LogEv("log.info", NoError), Ev("createDriver.return", s, NoError)>> IN
  IF caller = "setupSuite"
    THEN /\ bt' = [bt EXCEPT !.driver = s, !.elementHelper = s]
         /\ Done("returned", Null, NoError, evs2 \o <<LogEv("log.info", NoError)>>)
    ELSE /\ bt' = bt
         /\ Done("returned", s, NoError, evs2)

\* _createDriverWithRetry at its loop test, with attempt = a and lastError = le
CdrLoop(b, a, le, retries, caller, evs) ==
  IF cdr_loop(a, retries)
    THEN /\ bt' = b
         /\ Goto("build", a, le, evs)
    ELSE CreateDriverThrows(b, cdr_throw(le, retries), caller, evs)

\* createDriver on manager m, up to its first await
CreateDriverStart(b, m, caller) ==
  /\ manager' = m
  /\ IF SupportedBrowser(m.browser)
       THEN CdrLoop(b, 1, Undefined, m.retries, caller, <<>>)
       ELSE CreateDriverThrows(b, UnsupportedBrowser, caller, <<>>)

\* setupSuite(): this.driverManager = new WebDriverManager(); then createDriver()
Call_setupSuite ==
  /\ pc = "idle"
  /\ Len(sessions) < MaxSessions
  /\ op' = Call("setupSuite")
  /\ prev' = NoPrev
  /\ UNCHANGED <<sessions, element>>
  /\ \E env \in EnvBrowsers :
       CreateDriverStart([bt EXCEPT !.driverManager = 1],
                         NewWebDriverManager(env), "setupSuite")

\* baseTest.driverManager.createDriver() called by a test
Call_createDriver ==
  /\ pc = "idle"
  /\ Len(sessions) < MaxSessions
  /\ bt.driverManager = 1
  /\ op' = Call("createDriver")
  /\ prev' = NoPrev
  /\ UNCHANGED <<sessions, element>>
  /\ CreateDriverStart(bt, manager, "createDriver")

\* builder.build() resolves: _createDriverWithRetry returns the session,
\* createDriver stores it in this.driver and calls _configureTimeouts
BuildResolves ==
  /\ pc = "build"
  /\ LET s == Len(sessions) + 1 IN
       /\ sessions' = Append(sessions, NewSession)
       /\ manager' = [manager EXCEPT !.driver = s]
       /\ Goto("setTimeouts", 0, Undefined, <<Ev("build", s, NoError)>>)
  /\ UNCHANGED <<bt, op, element, prev>>

\* builder.build() rejects: the catch of _createDriverWithRetry
BuildRejects ==
  /\ pc = "build"
  /\ \E e \in RemoteErrors :
       LET le == cdr_catch(lastError, e)
           evs == <<Ev("build", Null, e), LogEv("log.warn", e)>> IN
       IF cdr_delay(attempt, manager.retries)
         THEN /\ bt' = bt
              /\ Goto("retryDelay", attempt, le, evs)
         ELSE CdrLoop(bt, attempt + 1, le, manager.retries, op.name, evs)
  /\ UNCHANGED <<manager, sessions, op, element, prev>>

\* the retry delay of _createDriverWithRetry elapses: attempt++ and the loop test
RetryDelayElapses ==
  /\ pc = "retryDelay"
  /\ CdrLoop(bt, attempt + 1, lastError, manager.retries, op.name,
             <<Ev("delay", Null, NoError)>>)
  /\ UNCHANGED <<manager, sessions, op, element, prev>>

\* _configureTimeouts: setTimeouts resolves; createDriver goes on to
\* _getBrowserVersion
SetTimeoutsResolves ==
  /\ pc = "setTimeouts"
  /\ sessions' = [sessions EXCEPT ![manager.driver].timeouts = TRUE]
  /\ Goto("getCapabilities", 0, Undefined, <<Ev("setTimeouts", manager.driver, NoError)>>)
  /\ UNCHANGED <<bt, manager, op, element, prev>>

SetTimeoutsRejects_swallow ==
  /\ pc = "setTimeouts"
  /\ \E e \in RemoteErrors :
       Goto("getCapabilities", 0, Undefined, <<Ev("setTimeouts", manager.driver, e)>>)
  /\ UNCHANGED <<bt, manager, sessions, op, element, prev>>

\* (variant: a createDriver whose catch drops the session it built)
SetTimeoutsRejects_release ==
  /\ pc = "setTimeouts"
  /\ manager' = [manager EXCEPT !.driver = Null]
  /\ \E e \in RemoteErrors :
       CreateDriverThrows(bt, e, op.name, <<Ev("setTimeouts", manager.driver, e)>>)
  /\ UNCHANGED <<sessions, op, element, prev>>

\* _configureTimeouts: setTimeouts rejects; createDriver's catch rethrows
SetTimeoutsRejects ==
  /\ pc = "setTimeouts"
  /\ \E e \in RemoteErrors :
       CreateDriverThrows(bt, e, op.name, <<Ev("setTimeouts", manager.driver, e)>>)
  /\ UNCHANGED <<manager, sessions, op, element, prev>>

GetCapabilitiesSettles_throws ==
  /\ pc = "getCapabilities"
  /\ \E r \in {NoError} \cup RemoteErrors :
       IF r = NoError
         THEN CreateDriverReturns(manager.driver, op.name,
                                  <<Ev("getCapabilities", manager.driver, r)>>)
         ELSE CreateDriverThrows(bt, r, op.name,
                                 <<Ev("getCapabilities", manager.driver, r)>>)
  /\ UNCHANGED <<manager, sessions, op, element, prev>>

\* _getBrowserVersion never throws: the version or 'unknown'; createDriver
\* logs and returns this.driver
GetCapabilitiesSettles ==
  /\ pc = "getCapabilities"
  /\ \E r \in {NoError} \cup RemoteErrors :
       CreateDriverReturns(manager.driver, op.name,
                           <<Ev("getCapabilities", manager.driver, r)>>)
  /\ UNCHANGED <<manager, sessions, op, element, prev>>

(***************************************************************************)
(* WebDriverManager.quit and BaseTest.teardownSuite                        *)
(***************************************************************************)
\* quit has returned to its caller; teardownSuite's finally clears the fields
\* (variant: a teardownSuite without its finally block)
QuitReturns_noFinally(m, caller, evs) ==
  /\ bt' = bt
  /\ manager' = m
  /\ Done("returned", Null, NoError,
          evs \o <<Ev("quit.return", Null, NoError)>>
              \o (IF caller = "teardownSuite" THEN <<LogEv("log.info", NoError)>> ELSE <<>>))

QuitReturns(m, caller, evs) ==
  LET evs2 == evs \o <<Ev("quit.return", Null, NoError)>> IN
  IF caller = "teardownSuite"
    THEN /\ bt' = [driverManager |-> 0, driver |-> Null, elementHelper |-> Null]
         /\ manager' = NoManager
         /\ Done("returned", Null, NoError, evs2 \o <<LogEv("log.info", NoError)>>)
    ELSE /\ bt' = bt
         /\ manager' = m
         /\ Done("returned", Null, NoError, evs2)

\* quit(): if (this.driver) await this.driver.quit()
QuitStart(caller) ==
  LET call == Ev("quit.call", manager.driver, NoError) IN
  IF manager.driver # Null
    THEN /\ Goto("quit", 0, Undefined, <<call>>)
         /\ UNCHANGED <<bt, manager>>
    ELSE QuitReturns(manager, caller, <<call>>)

\* baseTest.driverManager.quit() called by a test
Call_quit ==
  /\ pc = "idle"
  /\ bt.driverManager = 1
  /\ op' = Call("quit")
  /\ prev' = NoPrev
  /\ QuitStart("quit")
  /\ UNCHANGED <<sessions, element>>

\* teardownSuite(): quit the manager if there is one; finally null the fields
Call_teardownSuite ==
  /\ pc = "idle"
  /\ op' = Call("teardownSuite")
  /\ prev' = NoPrev
  /\ IF bt.driverManager = 1
       THEN QuitStart("teardownSuite")
       ELSE /\ bt' = [driverManager |-> 0, driver |-> Null, elementHelper |-> Null]
            /\ manager' = NoManager
            /\ Done("returned", Null, NoError, <<>>)
  /\ UNCHANGED <<sessions, element>>

QuitResolves_keepDriver ==
  /\ pc = "quit"
  /\ LET s == manager.driver IN
       /\ sessions' = [sessions EXCEPT ![s].quitCalls = @ + 1, ![s].closed = TRUE]
       /\ QuitReturns(manager, op.name,
                      <<Ev("quit", s, NoError), LogEv("log.info", NoError)>>)
  /\ UNCHANGED <<op, element, prev>>

\* driver.quit() resolves; finally this.driver = null
QuitResolves ==
  /\ pc = "quit"
  /\ LET s == manager.driver IN
       /\ sessions' = [sessions EXCEPT ![s].quitCalls = @ + 1, ![s].closed = TRUE]
       /\ QuitReturns([manager EXCEPT !.driver = Null], op.name,
                      <<Ev("quit", s, NoError), LogEv("log.info", NoError)>>)
  /\ UNCHANGED <<op, element, prev>>

QuitRejects_rethrow ==
  /\ pc = "quit"
  /\ \E e \in RemoteErrors, c \in BOOLEAN :
       LET s == manager.driver IN
       /\ sessions' = [sessions EXCEPT ![s].quitCalls = @ + 1, ![s].closed = c]
       /\ bt' = bt
       /\ manager' = manager
       /\ Done("threw", Null, e, <<Ev("quit", s, e)>>)
  /\ UNCHANGED <<op, element, prev>>

\* driver.quit() rejects (the session may or may not have gone): the catch
\* logs the error, finally this.driver = null, quit returns normally
QuitRejects ==
  /\ pc = "quit"
  /\ \E e \in RemoteErrors, c \in BOOLEAN :
       LET s == manager.driver IN
       /\ sessions' = [sessions EXCEPT ![s].quitCalls = @ + 1, ![s].closed = c]
       /\ QuitReturns([manager EXCEPT !.driver = Null], op.name,
                      <<Ev("quit", s, e), LogEv("log.error", e)>>)
  /\ UNCHANGED <<op, element, prev>>

(***************************************************************************)
(* BaseTest.navigateTo                                                     *)
(***************************************************************************)
AlreadyOnTarget_exact(currentUrl, url) == currentUrl = url

AlreadyOnTarget_never(currentUrl, url) == FALSE

\* navigateTo: currentUrl === url || (url.includes('/login') &&
\* currentUrl.includes('/login'))
AlreadyOnTarget(currentUrl, url) ==
  \/ currentUrl = url
  \/ (includes(url, S_login) /\ includes(currentUrl, S_login))

nav_loop_more(a, maxRetries) == a <= maxRetries + 1

\* navigateTo: the loop test attempt <= maxRetries
nav_loop(a, maxRetries) == a <= maxRetries

\* navigateTo: if (attempt < maxRetries) await delay
nav_delay(a, maxRetries) == a < maxRetries

\* navigateTo: lastError = error
nav_catch(le, e) == e

\* (variant: throw lastError, as clickElement does)
nav_throw_raw(le, maxRetries) == le

\* navigateTo: throw lastError || new Error(...)
nav_throw(le, maxRetries) == IF le # Undefined THEN le ELSE FailedToNavigate(maxRetries)

\* navigateTo at its loop test, with attempt = a and lastError = le
NavLoop(a, le, evs) ==
  IF nav_loop(a, op.maxRetries)
    THEN Goto("get", a, le, evs \o <<LogEv("log.step", NoError)>>)
    ELSE Done("threw", Null, nav_throw(le, op.maxRetries), evs)

\* navigateTo(url, maxRetries) called by a test, up to getCurrentUrl
Call_navigateTo ==
  /\ pc = "idle"
  /\ \E url \in Urls, mr \in RetryArgs :
       op' = [name |-> "navigateTo", url |-> url, maxRetries |-> mr]
  /\ IF bt.driver = Null
       THEN Done("threw", Null, NotInitialized, <<>>)
       ELSE Goto("getCurrentUrl", 0, Undefined, <<>>)
  /\ UNCHANGED <<bt, manager, sessions, element, prev>>

\* getCurrentUrl resolves: return when already on the target, else the loop
GetCurrentUrlResolves ==
  /\ pc = "getCurrentUrl"
  /\ ~sessions[bt.driver].closed
  /\ LET currentUrl == sessions[bt.driver].url
         ev == EvSeen("getCurrentUrl", bt.driver, currentUrl) IN
       IF AlreadyOnTarget(currentUrl, op.url)
         THEN Done("returned", Null, NoError, <<ev, LogEv("log.step", NoError)>>)
         ELSE NavLoop(1, Undefined, <<ev>>)
  /\ UNCHANGED <<bt, manager, sessions, op, element, prev>>

\* (variant: a pre-check whose error leaves navigateTo)
GetCurrentUrlRejects_rethrow ==
  /\ pc = "getCurrentUrl"
  /\ \E e \in PreCheckErrors :
       Done("threw", Null, e, <<Ev("getCurrentUrl", bt.driver, e)>>)
  /\ UNCHANGED <<bt, manager, sessions, op, element, prev>>

\* getCurrentUrl rejects: the error is ignored and the loop starts
GetCurrentUrlRejects ==
  /\ pc = "getCurrentUrl"
  /\ \E e \in PreCheckErrors :
       NavLoop(1, Undefined, <<Ev("getCurrentUrl", bt.driver, e)>>)
  /\ UNCHANGED <<bt, manager, sessions, op, element, prev>>

\* (variant: a navigateTo that awaits this.handlePopups() after the load)
GetResolves_thenPopups ==
  /\ pc = "get"
  /\ ~sessions[bt.driver].closed
  /\ \E landed \in Urls :
       sessions' = [sessions EXCEPT ![bt.driver].url = landed]
  /\ Goto("getAllWindowHandles", 0, Undefined, <<Ev("get", bt.driver, NoError)>>)
  /\ UNCHANGED <<bt, manager, op, element, prev>>

\* driver.get(url) resolves, the browser being where the load led it;
\* navigateTo returns
GetResolves ==
  /\ pc = "get"
  /\ ~sessions[bt.driver].closed
  /\ \E landed \in Urls :
       sessions' = [sessions EXCEPT ![bt.driver].url = landed]
  /\ Done("returned", Null, NoError, <<Ev("get", bt.driver, NoError)>>)
  /\ UNCHANGED <<bt, manager, op, element, prev>>

\* driver.get(url) rejects, the browser being where it was or at url: the
\* catch of navigateTo
GetRejects ==
  /\ pc = "get"
  /\ \E landed \in {sessions[bt.driver].url, op.url} :
       sessions' = [sessions EXCEPT ![bt.driver].url = landed]
  /\ \E e \in RemoteErrors :
       LET le == nav_catch(lastError, e)
           evs == <<Ev("get", bt.driver, e), LogEv("log.warn", e)>> IN
       IF nav_delay(attempt, op.maxRetries)
         THEN Goto("navDelay", attempt, le, evs)
         ELSE NavLoop(attempt + 1, le, evs)
  /\ UNCHANGED <<bt, manager, op, element, prev>>

\* the 500 ms delay of navigateTo elapses: attempt++ and the loop test
NavDelayElapses ==
  /\ pc = "navDelay"
  /\ NavLoop(attempt + 1, lastError, <<Ev("delay", Null, NoError)>>)
  /\ UNCHANGED <<bt, manager, sessions, op, element, prev>>

(***************************************************************************)
(* ElementHelper.clickElement (with the findElement it calls)              *)
(***************************************************************************)
\* clickElement: the loop test attempt <= maxRetries
clk_loop(a, maxRetries) == a <= maxRetries

\* clickElement: if (attempt < maxRetries) await delay
clk_delay(a, maxRetries) == a < maxRetries

clk_catch_first(le, e) == IF le = Undefined THEN e ELSE le

\* clickElement: lastError = error
clk_catch(le, e) == e

\* clickElement at its loop test; after the loop, throw lastError
ClkLoop(a, le, evs) ==
  IF clk_loop(a, op.maxRetries)
    THEN Goto("wait", a, le, evs)
    ELSE Done("threw", Null, le, evs)

\* the catch of clickElement, entered with error e
ClkCatch(e, evs) ==
  LET le == clk_catch(lastError, e) IN
  IF clk_delay(attempt, op.maxRetries)
    THEN Goto("clkDelay", attempt, le, evs)
    ELSE ClkLoop(attempt + 1, le, evs)

\* baseTest.elementHelper.clickElement(locator, maxRetries) called by a test
Call_clickElement ==
  /\ pc = "idle"
  /\ bt.elementHelper # Null
  /\ \E mr \in RetryArgs :
       op' = [name |-> "clickElement", url |-> <<>>, maxRetries |-> mr]
  /\ prev' = NoPrev
  /\ element' = Null
  /\ IF clk_loop(1, op'.maxRetries)
       THEN Goto("wait", 1, Undefined, <<>>)
       ELSE Done("threw", Null, Undefined, <<>>)
  /\ UNCHANGED <<bt, manager, sessions>>

\* (variant: the handle of an earlier attempt is kept)
WaitResolves_reuse ==
  /\ pc = "wait"
  /\ ~sessions[bt.elementHelper].closed
  /\ element' = IF element # Null THEN element ELSE Len(events) + 1
  /\ Goto("click", attempt, lastError, <<Ev("wait", element', NoError)>>)
  /\ UNCHANGED <<bt, manager, sessions, op, prev>>

\* findElement: driver.wait(until.elementLocated) resolves with a new
\* handle; clickElement clicks it
WaitResolves ==
  /\ pc = "wait"
  /\ ~sessions[bt.elementHelper].closed
  /\ element' = Len(events) + 1
  /\ Goto("click", attempt, lastError, <<Ev("wait", element', NoError)>>)
  /\ UNCHANGED <<bt, manager, sessions, op, prev>>

\* findElement: the wait rejects and findElement throws its own
\* 'Element not found' error, which clickElement catches
WaitRejects ==
  /\ pc = "wait"
  /\ \E e \in RemoteErrors :
       ClkCatch(ElementNotFound,
                <<Ev("wait", Null, e), Ev("findElement.throw", Null, ElementNotFound)>>)
  /\ UNCHANGED <<bt, manager, sessions, op, element, prev>>

\* element.click() resolves: clickElement returns
ClickResolves ==
  /\ pc = "click"
  /\ ~sessions[bt.elementHelper].closed
  /\ Done("returned", Null, NoError, <<Ev("click", element, NoError)>>)
  /\ UNCHANGED <<bt, manager, sessions, op, element, prev>>

\* element.click() rejects: the catch of clickElement
ClickRejects ==
  /\ pc = "click"
  /\ \E e \in RemoteErrors : ClkCatch(e, <<Ev("click", element, e)>>)
  /\ UNCHANGED <<bt, manager, sessions, op, element, prev>>

\* the 100 ms delay of clickElement elapses: attempt++ and the loop test
ClkDelayElapses ==
  /\ pc = "clkDelay"
  /\ ClkLoop(attempt + 1, lastError, <<Ev("delay", Null, NoError)>>)
  /\ UNCHANGED <<bt, manager, sessions, op, element, prev>>

(***************************************************************************)
(* The test runner: one call after the other.                              *)
(***************************************************************************)
\* what the next call can tell of a navigateTo call that has just ended
Summary ==
  [ url |-> op.url,
    gets |-> Count("get"),
    status |-> result.status,
    landed |-> IF bt.driver # Null THEN sessions[bt.driver].url ELSE <<>> ]

\* the finished call's result has been seen; the next call may start
Finish ==
  /\ pc = "done"
  /\ pc' = "idle"
  /\ op' = Idle
  /\ events' = <<>>
  /\ result' = NoResult
  /\ element' = Null
  /\ prev' = NoPrev
  /\ locals' = NoLocals
  /\ world' = world
  /\ UNCHANGED <<bt, manager, sessions, attempt, lastError>>

Next ==
  \/ Call_setupSuite
  \/ Call_createDriver
  \/ BuildResolves
  \/ BuildRejects
  \/ RetryDelayElapses
  \/ SetTimeoutsResolves
  \/ SetTimeoutsRejects
  \/ GetCapabilitiesSettles
  \/ Call_quit
  \/ Call_teardownSuite
  \/ QuitResolves
  \/ QuitRejects
  \/ Call_navigateTo
  \/ GetCurrentUrlResolves
  \/ GetCurrentUrlRejects
  \/ GetResolves
  \/ GetRejects
  \/ NavDelayElapses
  \/ Call_clickElement
  \/ WaitResolves
  \/ WaitRejects
  \/ ClickResolves
  \/ ClickRejects
  \/ ClkDelayElapses
  \/ Finish

Spec == Init /\ [][Next]_vars

(***************************************************************************)
(* Navigation alone, on the session a successful setupSuite has left, at   *)
(* any location; the runner remembers the navigateTo call that has just    *)
(* ended, so that two consecutive calls can be told of.                    *)
(***************************************************************************)
Init_Nav ==
  /\ bt = [driverManager |-> 1, driver |-> 1, elementHelper |-> 1]
  /\ manager = [NewWebDriverManager(<<>>) EXCEPT !.driver = 1]
  /\ \E u \in {U_blank} \cup Urls :
       sessions = <<[NewSession EXCEPT !.timeouts = TRUE, !.url = u]>>
  /\ op = Idle
  /\ pc = "idle"
  /\ attempt = 0
  /\ lastError = Undefined
  /\ element = Null
  /\ events = <<>>
  /\ result = NoResult
  /\ prev = NoPrev
  /\ locals = NoLocals
  /\ world = NoWorld

\* as Finish, remembering the navigateTo call that has ended
Finish_Nav ==
  /\ pc = "done"
  /\ pc' = "idle"
  /\ op' = Idle
  /\ events' = <<>>
  /\ result' = NoResult
  /\ element' = Null
  /\ prev' = Summary
  /\ locals' = NoLocals
  /\ world' = world
  /\ UNCHANGED <<bt, manager, sessions, attempt, lastError>>

Next_Nav ==
  \/ Call_navigateTo
  \/ GetCurrentUrlResolves
  \/ GetCurrentUrlRejects
  \/ GetResolves
  \/ GetRejects
  \/ NavDelayElapses
  \/ Finish_Nav

SpecNav == Init_Nav /\ [][Next_Nav]_vars

(***************************************************************************)
(* BaseTest.handlePopups.  A control findElements reports is a handle with *)
(* the position it has in lookup order and with what the page would answer *)
(* to isDisplayed() and isEnabled() on it.                                 *)
(***************************************************************************)
WindowHandles(n) == [i \in 1..n |-> "window"]
Button(i, d, e) == [id |-> i, displayed |-> d, enabled |-> e]
ButtonLists ==
  UNION { { [i \in 1..n |-> Button(i, f[i][1], f[i][2])] :
              f \in [1..n -> BOOLEAN \X BOOLEAN] } : n \in 0..MaxButtons }
Bool(b) == IF b THEN <<"true">> ELSE <<"false">>

PopLocals == [of |-> "handlePopups", dismissButtons |-> <<>>,
              button |-> Button(0, FALSE, FALSE), isDisplayed |-> FALSE]

\* suspend at the await p, the locals of the call being l
Await(p, evs, l) ==
  /\ pc' = p
  /\ events' = events \o evs
  /\ locals' = l
  /\ world' = world
  /\ UNCHANGED <<attempt, lastError, result>>

\* windowHandles.length === 0
pop_noWindows_never(windowHandles) == FALSE
pop_noWindows(windowHandles) == Len(windowHandles) = 0
\* dismissButtons.length > 0
pop_hasButtons(dismissButtons) == Len(dismissButtons) > 0
\* const button = dismissButtons[0]
pop_button_firstReady(dismissButtons) ==
  LET ready == { i \in 1..Len(dismissButtons) :
                   dismissButtons[i].displayed /\ dismissButtons[i].enabled } IN
    IF ready = {} THEN dismissButtons[1]
    ELSE dismissButtons[CHOOSE i \in ready : \A j \in ready : i <= j]
pop_button(dismissButtons) == dismissButtons[1]
\* isDisplayed && isEnabled
pop_shouldClick_either(isDisplayed, isEnabled) == isDisplayed \/ isEnabled
pop_shouldClick(isDisplayed, isEnabled) == isDisplayed /\ isEnabled

\* handlePopups returns (to the test, or to the method that awaited it)
PopReturns(evs) == Done("returned", Null, NoError, evs)

\* handlePopups(): return at once without a driver, else the handle check
Call_handlePopups ==
  /\ pc = "idle"
  /\ op' = Call("handlePopups")
  /\ IF bt.driver = Null
       THEN PopReturns(<<>>)
       ELSE Await("getAllWindowHandles", <<>>, PopLocals)
  /\ UNCHANGED <<bt, manager, sessions, element, prev>>

\* getAllWindowHandles resolves: warn and return when there is no window,
\* else the 100 ms grace delay
GetAllWindowHandlesResolves ==
  /\ pc = "getAllWindowHandles"
  /\ ~sessions[bt.driver].closed
  /\ \E n \in 0..MaxWindows :
       LET windowHandles == WindowHandles(n)
           ev == EvSeen("getAllWindowHandles", bt.driver, windowHandles) IN
         IF pop_noWindows(windowHandles)
           THEN PopReturns(<<ev, LogEv("log.warn", NoError)>>)
           ELSE Await("popGrace", <<ev>>, locals)
  /\ UNCHANGED <<bt, manager, sessions, op, element, prev>>

\* (variant: the error is swallowed without a log line)
GetAllWindowHandlesRejects_silent ==
  /\ pc = "getAllWindowHandles"
  /\ \E e \in RemoteErrors :
       PopReturns(<<Ev("getAllWindowHandles", bt.driver, e)>>)
  /\ UNCHANGED <<bt, manager, sessions, op, element, prev>>

\* getAllWindowHandles rejects: the outer catch warns, handlePopups returns
GetAllWindowHandlesRejects ==
  /\ pc = "getAllWindowHandles"
  /\ \E e \in RemoteErrors :
       PopReturns(<<Ev("getAllWindowHandles", bt.driver, e), LogEv("log.warn", e)>>)
  /\ UNCHANGED <<bt, manager, sessions, op, element, prev>>

\* the grace delay elapses: the lookup of the dismiss controls
PopGraceElapses ==
  /\ pc = "popGrace"
  /\ Await("findElements", <<Ev("delay", Null, NoError)>>, locals)
  /\ UNCHANGED <<bt, manager, sessions, op, element, prev>>

\* findElements resolves: nothing more without a control, else
\* isDisplayed() on dismissButtons[0]
FindElementsResolves ==
  /\ pc = "findElements"
  /\ ~sessions[bt.driver].closed
  /\ \E dismissButtons \in ButtonLists :
       LET ev == Ev("findElements", bt.driver, NoError) IN
         IF pop_hasButtons(dismissButtons)
           THEN Await("isDisplayed", <<ev>>,
                      [PopLocals EXCEPT !.dismissButtons = dismissButtons,
                                        !.button = pop_button(dismissButtons)])
           ELSE PopReturns(<<ev>>)
  /\ UNCHANGED <<bt, manager, sessions, op, element, prev>>

\* (variant: the error leaves handlePopups)
FindElementsRejects_rethrow ==
  /\ pc = "findElements"
  /\ \E e \in RemoteErrors :
       Done("threw", Null, e, <<Ev("findElements", bt.driver, e)>>)
  /\ UNCHANGED <<bt, manager, sessions, op, element, prev>>

\* findElements rejects: the outer catch warns, handlePopups returns
FindElementsRejects ==
  /\ pc = "findElements"
  /\ \E e \in RemoteErrors :
       PopReturns(<<Ev("findElements", bt.driver, e), LogEv("log.warn", e)>>)
  /\ UNCHANGED <<bt, manager, sessions, op, element, prev>>

\* button.isDisplayed() resolves with what the page answers: isEnabled()
IsDisplayedResolves ==
  /\ pc = "isDisplayed"
  /\ ~sessions[bt.driver].closed
  /\ LET isDisplayed == locals.button.displayed IN
       Await("isEnabled", <<EvSeen("isDisplayed", locals.button.id, Bool(isDisplayed))>>,
             [locals EXCEPT !.isDisplayed = isDisplayed])
  /\ UNCHANGED <<bt, manager, sessions, op, element, prev>>

\* button.isDisplayed() rejects: the inner catch ignores the error
IsDisplayedRejects ==
  /\ pc = "isDisplayed"
  /\ \E e \in RemoteErrors :
       PopReturns(<<Ev("isDisplayed", locals.button.id, e)>>)
  /\ UNCHANGED <<bt, manager, sessions, op, element, prev>>

\* button.isEnabled() resolves: click when displayed and enabled
IsEnabledResolves ==
  /\ pc = "isEnabled"
  /\ ~sessions[bt.driver].closed
  /\ LET isEnabled == locals.button.enabled
         ev == EvSeen("isEnabled", locals.button.id, Bool(isEnabled)) IN
       IF pop_shouldClick(locals.isDisplayed, isEnabled)
         THEN Await("popClick", <<ev>>, locals)
         ELSE PopReturns(<<ev>>)
  /\ UNCHANGED <<bt, manager, sessions, op, element, prev>>

\* button.isEnabled() rejects: the inner catch ignores the error
IsEnabledRejects ==
  /\ pc = "isEnabled"
  /\ \E e \in RemoteErrors :
       PopReturns(<<Ev("isEnabled", locals.button.id, e)>>)
  /\ UNCHANGED <<bt, manager, sessions, op, element, prev>>

\* button.click() resolves: 'Popup dismissed', then the 100 ms settle delay
PopClickResolves ==
  /\ pc = "popClick"
  /\ ~sessions[bt.driver].closed
  /\ Await("popSettle",
           <<Ev("click", locals.button.id, NoError), LogEv("log.step", NoError)>>,
           locals)
  /\ UNCHANGED <<bt, manager, sessions, op, element, prev>>

\* (variant: a rejected click is tried again)
PopClickRejects_retry ==
  /\ pc = "popClick"
  /\ \E e \in RemoteErrors :
       IF Count("click") = 0
         THEN Await("popClick", <<Ev("click", locals.button.id, e)>>, locals)
         ELSE PopReturns(<<Ev("click", locals.button.id, e)>>)
  /\ UNCHANGED <<bt, manager, sessions, op, element, prev>>

\* button.click() rejects: the inner catch ignores the error
PopClickRejects ==
  /\ pc = "popClick"
  /\ \E e \in RemoteErrors :
       PopReturns(<<Ev("click", locals.button.id, e)>>)
  /\ UNCHANGED <<bt, manager, sessions, op, element, prev>>

\* the settle delay elapses: handlePopups returns
PopSettleElapses ==
  /\ pc = "popSettle"
  /\ PopReturns(<<Ev("delay", Null, NoError)>>)
  /\ UNCHANGED <<bt, manager, sessions, op, element, prev>>

(***************************************************************************)
(* Navigation and popup suppression, as a test calls them, on a BaseTest   *)
(* before setupSuite (no driver) or on the session setupSuite has left.    *)
(***************************************************************************)
Init_Pop ==
  /\ \/ /\ bt = NewBaseTest
        /\ manager = NoManager
        /\ sessions = <<>>
     \/ /\ bt = [driverManager |-> 1, driver |-> 1, elementHelper |-> 1]
        /\ manager = [NewWebDriverManager(<<>>) EXCEPT !.driver = 1]
        /\ \E u \in {U_blank, U_login} :
             sessions = <<[NewSession EXCEPT !.timeouts = TRUE, !.url = u]>>
  /\ op = Idle
  /\ pc = "idle"
  /\ attempt = 0
  /\ lastError = Undefined
  /\ element = Null
  /\ events = <<>>
  /\ result = NoResult
  /\ prev = NoPrev
  /\ locals = NoLocals
  /\ world = NoWorld

Next_Pop ==
  \/ Call_navigateTo
  \/ GetCurrentUrlResolves
  \/ GetCurrentUrlRejects
  \/ GetResolves
  \/ GetRejects
  \/ NavDelayElapses
  \/ Call_handlePopups
  \/ GetAllWindowHandlesResolves
  \/ GetAllWindowHandlesRejects
  \/ PopGraceElapses
  \/ FindElementsResolves
  \/ FindElementsRejects
  \/ IsDisplayedResolves
  \/ IsDisplayedRejects
  \/ IsEnabledResolves
  \/ IsEnabledRejects
  \/ PopClickResolves
  \/ PopClickRejects
  \/ PopSettleElapses
  \/ Finish

SpecPop == Init_Pop /\ [][Next_Pop]_vars

(***************************************************************************)
(* ElementHelper.findElement, getElementText and elementExists.  A locator *)
(* is what its toString() yields; a located element is a handle.           *)
(***************************************************************************)
\* the fields of the login form: username, password, submit button
\* (By.id(x) is By.css('*[id="x"]'))
FormLocators == << "By(css selector, *[id=\"username\"])",
                   "By(css selector, *[id=\"password\"])",
                   "By(css selector, button[type=\"submit\"])" >>
Locators == { "By(css selector, #username)", "By(css selector, .flash)" }
              \cup { FormLocators[i] : i \in 1..Len(FormLocators) }
Timeouts == { FindTimeout, ExistsTimeout }
Handles == 1..MaxHandles
Texts == { "", "Welcome" }
DefaultTexts == { "", "n/a" }

\* new Error(`Element not found: ${locator.toString()} within ${timeout}ms`)
ElementNotFoundFor(locator, timeout) ==
  Err("Element not found: " \o locator \o " within " \o ToString(timeout) \o "ms", 0)

ElemLocals(o, locator, timeout, defaultText) ==
  [of |-> o, locator |-> locator, timeout |-> timeout, defaultText |-> defaultText,
   element |-> Null]

\* findElement(locator, timeout = 5000), up to its await
Call_findElement ==
  /\ pc = "idle"
  /\ bt.elementHelper # Null
  /\ op' = Call("findElement")
  /\ \E locator \in Locators, timeout \in Timeouts :
       Await("findWait", <<>>, ElemLocals("findElement", locator, timeout, ""))
  /\ UNCHANGED <<bt, manager, sessions, element, prev>>

\* getElementText(locator, defaultText = ''), up to the await of findElement
Call_getElementText ==
  /\ pc = "idle"
  /\ bt.elementHelper # Null
  /\ op' = Call("getElementText")
  /\ \E locator \in Locators, defaultText \in DefaultTexts :
       Await("findWait", <<>>, ElemLocals("getElementText", locator, FindTimeout, defaultText))
  /\ UNCHANGED <<bt, manager, sessions, element, prev>>

\* elementExists(locator, timeout = 1000), up to its await
Call_elementExists ==
  /\ pc = "idle"
  /\ bt.elementHelper # Null
  /\ op' = Call("elementExists")
  /\ \E locator \in Locators, timeout \in Timeouts :
       Await("existsWait", <<>>, ElemLocals("elementExists", locator, timeout, ""))
  /\ UNCHANGED <<bt, manager, sessions, element, prev>>

\* the wait of findElement resolves with a handle: findElement returns it;
\* getElementText goes on to element.getText()
FindWaitResolves ==
  /\ pc = "findWait"
  /\ ~sessions[bt.elementHelper].closed
  /\ \E h \in Handles :
       LET evs == <<Ev("wait", h, NoError), Ev("findElement.return", h, NoError)>> IN
         IF op.name = "findElement"
           THEN Done("returned", h, NoError, evs)
           ELSE Await("getText", evs, [locals EXCEPT !.element = h])
  /\ UNCHANGED <<bt, manager, sessions, op, element, prev>>

\* (variant: findElement lets the error of the wait through)
FindWaitRejects_raw ==
  /\ pc = "findWait"
  /\ \E e \in RemoteErrors :
       LET evs == <<Ev("wait", Null, e), Ev("findElement.throw", Null, e)>> IN
         IF op.name = "findElement"
           THEN Done("threw", Null, e, evs)
           ELSE Done("returned", locals.defaultText, NoError, evs)
  /\ UNCHANGED <<bt, manager, sessions, op, element, prev>>

\* (variant: getElementText lets the error of findElement through)
FindWaitRejects_propagate ==
  /\ pc = "findWait"
  /\ \E e \in RemoteErrors :
       LET notFound == ElementNotFoundFor(locals.locator, locals.timeout)
           evs == <<Ev("wait", Null, e), Ev("findElement.throw", Null, notFound)>> IN
         Done("threw", Null, notFound, evs)
  /\ UNCHANGED <<bt, manager, sessions, op, element, prev>>

\* the wait of findElement rejects: findElement throws its own error, which
\* getElementText catches, returning defaultText
FindWaitRejects ==
  /\ pc = "findWait"
  /\ \E e \in RemoteErrors :
       LET notFound == ElementNotFoundFor(locals.locator, locals.timeout)
           evs == <<Ev("wait", Null, e), Ev("findElement.throw", Null, notFound)>> IN
         IF op.name = "findElement"
           THEN Done("threw", Null, notFound, evs)
           ELSE Done("returned", locals.defaultText, NoError, evs)
  /\ UNCHANGED <<bt, manager, sessions, op, element, prev>>

\* element.getText() resolves: getElementText returns the text
GetTextResolves ==
  /\ pc = "getText"
  /\ ~sessions[bt.elementHelper].closed
  /\ \E text \in Texts :
       Done("returned", text, NoError,
            <<[Ev("getText", locals.element, NoError) EXCEPT !.v = <<text>>]>>)
  /\ UNCHANGED <<bt, manager, sessions, op, element, prev>>

\* element.getText() rejects: getElementText returns defaultText
GetTextRejects ==
  /\ pc = "getText"
  /\ \E e \in RemoteErrors :
       Done("returned", locals.defaultText, NoError, <<Ev("getText", locals.element, e)>>)
  /\ UNCHANGED <<bt, manager, sessions, op, element, prev>>

\* (variant: an elementExists that answers false for a located element)
ExistsWaitResolves_false ==
  /\ pc = "existsWait"
  /\ ~sessions[bt.elementHelper].closed
  /\ \E h \in Handles :
       Done("returned", FALSE, NoError, <<Ev("wait", h, NoError)>>)
  /\ UNCHANGED <<bt, manager, sessions, op, element, prev>>

\* the wait of elementExists resolves: true
ExistsWaitResolves ==
  /\ pc = "existsWait"
  /\ ~sessions[bt.elementHelper].closed
  /\ \E h \in Handles :
       Done("returned", TRUE, NoError, <<Ev("wait", h, NoError)>>)
  /\ UNCHANGED <<bt, manager, sessions, op, element, prev>>

\* (variant: elementExists lets the error of the wait through)
ExistsWaitRejects_rethrow ==
  /\ pc = "existsWait"
  /\ \E e \in RemoteErrors :
       Done("threw", Null, e, <<Ev("wait", Null, e)>>)
  /\ UNCHANGED <<bt, manager, sessions, op, element, prev>>

\* the wait of elementExists rejects: false
ExistsWaitRejects ==
  /\ pc = "existsWait"
  /\ \E e \in RemoteErrors :
       Done("returned", FALSE, NoError, <<Ev("wait", Null, e)>>)
  /\ UNCHANGED <<bt, manager, sessions, op, element, prev>>

(***************************************************************************)
(* The element helper alone, on the session a successful setupSuite has    *)
(* left, open or already quit.                                             *)
(***************************************************************************)
Init_Elem ==
  /\ bt = [driverManager |-> 1, driver |-> 1, elementHelper |-> 1]
  /\ manager = [NewWebDriverManager(<<>>) EXCEPT !.driver = 1]
  /\ \E c \in BOOLEAN :
       sessions = <<[NewSession EXCEPT !.timeouts = TRUE, !.url = U_login, !.closed = c]>>
  /\ op = Idle
  /\ pc = "idle"
  /\ attempt = 0
  /\ lastError = Undefined
  /\ element = Null
  /\ events = <<>>
  /\ result = NoResult
  /\ prev = NoPrev
  /\ locals = NoLocals
  /\ world = NoWorld

Next_Elem ==
  \/ Call_findElement
  \/ Call_getElementText
  \/ Call_elementExists
  \/ FindWaitResolves
  \/ FindWaitRejects
  \/ GetTextResolves
  \/ GetTextRejects
  \/ ExistsWaitResolves
  \/ ExistsWaitRejects
  \/ Finish

SpecElem == Init_Elem /\ [][Next_Elem]_vars

(***************************************************************************)
(* ElementHelper.fillForm.  Every entry of fieldMap runs its own async     *)
(* function (find, clear, sendKeys); the functions advance independently,  *)
(* one settled command at a time.  Promise.all settles the call: it        *)
(* rejects with the first rejection and resolves once every function has   *)
(* resolved; the functions still running go on after a rejection.  A       *)
(* field of the page is named by its selector, as is the handle located    *)
(* for it; sendKeys types after what the field holds.                      *)
(***************************************************************************)
Selectors == { "#username", "#password" }
\* the fieldMap arguments: any of the selectors, each with a value to type
FieldMaps ==
  UNION { [ss -> { <<"x">>, <<"y", "z">> }] : ss \in SUBSET Selectors }
\* By.css(selector).toString()
ByCss(selector) == "By(css selector, " \o selector \o ")"

FieldEv(k, selector, e) == [Ev(k, Null, e) EXCEPT !.v = <<selector>>]

\* Promise.all(promises), the functions being at the awaits `at`, after the
\* function that has just settled a command rejected with e (or did not:
\* NoError)
PromiseAll(at, e) ==
  IF pc # "fillForm" THEN UNCHANGED <<pc, result>>
  ELSE IF e # NoError
    THEN pc' = "done" /\ result' = [status |-> "threw", value |-> Null, err |-> e]
  ELSE IF \A sel \in DOMAIN at : at[sel] = "resolved"
    THEN pc' = "done" /\ result' = [status |-> "returned", value |-> Null, err |-> NoError]
  ELSE UNCHANGED <<pc, result>>

\* the function of selector sel moves to `to`, form being the fields of the
\* page afterwards
FieldStep(sel, to, e, thrown, form) ==
  LET at == [locals.at EXCEPT ![sel] = to] IN
    /\ locals' = [locals EXCEPT !.at = at]
    /\ world' = [world EXCEPT !.form = form]
    /\ events' = Append(events, FieldEv(locals.at[sel], sel, e))
    /\ PromiseAll(at, thrown)
    /\ UNCHANGED <<bt, manager, sessions, op, element, prev, attempt, lastError>>

\* fillForm(fieldMap): every function runs up to its findElement
Call_fillForm ==
  /\ pc = "idle"
  /\ bt.elementHelper # Null
  /\ op' = Call("fillForm")
  /\ \E fieldMap \in FieldMaps :
       /\ locals' = [of |-> "fillForm", fieldMap |-> fieldMap,
                     at |-> [sel \in DOMAIN fieldMap |-> "find"]]
       /\ IF DOMAIN fieldMap = {}
            THEN /\ pc' = "done"
                 /\ result' = [status |-> "returned", value |-> Null, err |-> NoError]
            ELSE /\ pc' = "fillForm"
                 /\ result' = result
  /\ UNCHANGED <<bt, manager, sessions, element, prev, attempt, lastError, events, world>>

\* (variant: a clear that leaves the field as it is)
FieldClearResolves_keeps ==
  /\ locals.of = "fillForm"
  /\ ~sessions[bt.elementHelper].closed
  /\ \E sel \in DOMAIN locals.at :
       /\ locals.at[sel] = "clear"
       /\ FieldStep(sel, "sendKeys", NoError, NoError, world.form)

\* findElement(By.css(selector)) resolves: element.clear()
FieldFindResolves ==
  /\ locals.of = "fillForm"
  /\ ~sessions[bt.elementHelper].closed
  /\ \E sel \in DOMAIN locals.at :
       /\ locals.at[sel] = "find"
       /\ FieldStep(sel, "clear", NoError, NoError, world.form)

\* findElement(By.css(selector)) throws its 'Element not found' error
FieldFindRejects ==
  /\ locals.of = "fillForm"
  /\ \E sel \in DOMAIN locals.at, e \in RemoteErrors :
       /\ locals.at[sel] = "find"
       /\ FieldStep(sel, "rejected", e, ElementNotFoundFor(ByCss(sel), FindTimeout),
                    world.form)

\* element.clear() resolves, the field being empty: element.sendKeys(value)
FieldClearResolves ==
  /\ locals.of = "fillForm"
  /\ ~sessions[bt.elementHelper].closed
  /\ \E sel \in DOMAIN locals.at :
       /\ locals.at[sel] = "clear"
       /\ FieldStep(sel, "sendKeys", NoError, NoError, [world.form EXCEPT ![sel] = <<>>])

\* element.clear() rejects: so does the function
FieldClearRejects ==
  /\ locals.of = "fillForm"
  /\ \E sel \in DOMAIN locals.at, e \in RemoteErrors :
       /\ locals.at[sel] = "clear"
       /\ FieldStep(sel, "rejected", e, e, world.form)

\* (variant: a fillForm whose rejection stops the typing still to come)
FieldSendKeysResolves_cancelled ==
  /\ locals.of = "fillForm" /\ pc = "fillForm"
  /\ ~sessions[bt.elementHelper].closed
  /\ \E sel \in DOMAIN locals.at :
       /\ locals.at[sel] = "sendKeys"
       /\ FieldStep(sel, "resolved", NoError, NoError,
                    [world.form EXCEPT ![sel] = @ \o locals.fieldMap[sel]])

\* element.sendKeys(value) resolves, value typed into the field
FieldSendKeysResolves ==
  /\ locals.of = "fillForm"
  /\ ~sessions[bt.elementHelper].closed
  /\ \E sel \in DOMAIN locals.at :
       /\ locals.at[sel] = "sendKeys"
       /\ FieldStep(sel, "resolved", NoError, NoError,
                    [world.form EXCEPT ![sel] = @ \o locals.fieldMap[sel]])

\* element.sendKeys(value) rejects: so does the function
FieldSendKeysRejects ==
  /\ locals.of = "fillForm"
  /\ \E sel \in DOMAIN locals.at, e \in RemoteErrors :
       /\ locals.at[sel] = "sendKeys"
       /\ FieldStep(sel, "rejected", e, e, world.form)

(***************************************************************************)
(* fillForm alone, on the session a successful setupSuite has left, the    *)
(* fields of the page holding what earlier typing left in them.            *)
(***************************************************************************)
Init_Form ==
  /\ bt = [driverManager |-> 1, driver |-> 1, elementHelper |-> 1]
  /\ manager = [NewWebDriverManager(<<>>) EXCEPT !.driver = 1]
  /\ sessions = <<[NewSession EXCEPT !.timeouts = TRUE, !.url = U_login]>>
  /\ op = Idle
  /\ pc = "idle"
  /\ attempt = 0
  /\ lastError = Undefined
  /\ element = Null
  /\ events = <<>>
  /\ result = NoResult
  /\ prev = NoPrev
  /\ locals = NoLocals
  /\ \E form \in [Selectors -> { <<>>, <<"o">> }] :
       world = [NoWorld EXCEPT !.form = form]

Next_Form ==
  \/ Call_fillForm
  \/ FieldFindResolves
  \/ FieldFindRejects
  \/ FieldClearResolves
  \/ FieldClearRejects
  \/ FieldSendKeysResolves
  \/ FieldSendKeysRejects
  \/ Finish

SpecForm == Init_Form /\ [][Next_Form]_vars

(***************************************************************************)
(* The three retry loops alone: a suite that is set up, navigates and      *)
(* clicks, and never shuts its sessions down.                              *)
(***************************************************************************)
Next_Retry ==
  \/ Call_setupSuite
  \/ BuildResolves
  \/ BuildRejects
  \/ RetryDelayElapses
  \/ SetTimeoutsResolves
  \/ SetTimeoutsRejects
  \/ GetCapabilitiesSettles
  \/ Call_navigateTo
  \/ GetCurrentUrlResolves
  \/ GetCurrentUrlRejects
  \/ GetResolves
  \/ GetRejects
  \/ NavDelayElapses
  \/ Call_clickElement
  \/ WaitResolves
  \/ WaitRejects
  \/ ClickResolves
  \/ ClickRejects
  \/ ClkDelayElapses
  \/ Finish

SpecRetry == Init /\ [][Next_Retry]_vars

(***************************************************************************)
(* A recorded run: the runner keeps, in world.seen, what each call that    *)
(* has ended was and how it ended.                                         *)
(***************************************************************************)
Seen == [name |-> op.name, status |-> result.status, value |-> result.value]

\* as Finish, the call that has ended being recorded
Finish_Run ==
  /\ pc = "done"
  /\ Len(world.seen) < MaxCalls
  /\ pc' = "idle"
  /\ op' = Idle
  /\ events' = <<>>
  /\ result' = NoResult
  /\ element' = Null
  /\ prev' = NoPrev
  /\ locals' = NoLocals
  /\ world' = [world EXCEPT !.seen = Append(@, Seen)]
  /\ UNCHANGED <<bt, manager, sessions, attempt, lastError>>

\* the hooks of a suite and a test that quits the manager itself
Next_Suite ==
  \/ Call_setupSuite
  \/ BuildResolves
  \/ BuildRejects
  \/ RetryDelayElapses
  \/ SetTimeoutsResolves
  \/ SetTimeoutsRejects
  \/ GetCapabilitiesSettles
  \/ Call_quit
  \/ Call_teardownSuite
  \/ QuitResolves
  \/ QuitRejects
  \/ Finish_Run

SpecSuite == Init /\ [][Next_Suite]_vars

(***************************************************************************)
(* BaseTest.teardownTest and WebDriverManager.takeScreenshot(filename).    *)
(* A test name and a file name are sequences of characters.                *)
(***************************************************************************)
\* [a-zA-Z0-9]
AlphaNumeric ==
  { UpperAlpha[i] : i \in 1..Len(UpperAlpha) } \cup { LowerAlpha[i] : i \in 1..Len(LowerAlpha) }
    \cup { "0", "1", "2", "3", "4", "5", "6", "7", "8", "9" }
\* testName.replace(/[^a-zA-Z0-9]/g, '_')
Sanitize(testName) ==
  [i \in 1..Len(testName) |-> IF testName[i] \in AlphaNumeric THEN testName[i] ELSE "_"]
\* `failed_${sanitizedTestName}.png`
FailedName(testName) ==
  <<"f","a","i","l","e","d","_">> \o Sanitize(testName) \o <<".","p","n","g">>
TestNames == { <<"l","o","g","i","n"," ","o","k">>, <<"l","o","g","i","n","-","o","k">>,
               <<"l","o","g","o","u","t">> }
FsErrors == { Err("EACCES", 0) }

\* const result = testPassed ? 'passed' : 'failed'
tt_result(testPassed) == IF testPassed THEN "passed" ELSE "failed"
\* if (!testPassed && this.driverManager)
tt_capture_always(testPassed, driverManager) == driverManager # 0
tt_capture(testPassed, driverManager) == ~testPassed /\ driverManager # 0

\* the call in progress ends, its locals being l and the world w
Return(st, v, e, evs, l, w) ==
  /\ pc' = "done"
  /\ attempt' = 0
  /\ lastError' = Undefined
  /\ events' = events \o evs
  /\ result' = [status |-> st, value |-> v, err |-> e]
  /\ locals' = l
  /\ world' = w

\* logger.testEnd(testName, result); logger.info(...): teardownTest returns
TestEnds(evs, l, w) ==
  Return("returned", Null, NoError,
         evs \o <<[LogEv("log.testEnd", NoError) EXCEPT !.v = <<tt_result(l.testPassed)>>],
                  LogEv("log.info", NoError)>>,
         l, w)

\* (variant: a teardownTest without the catch around takeScreenshot)
CaptureFails_rethrow(e, evs, inTry, l) ==
  Return("threw", Null, e,
         evs \o (IF inTry THEN <<LogEv("log.error", e)>> ELSE <<>>)
             \o <<Ev("takeScreenshot.throw", Null, e)>>,
         l, world)

\* takeScreenshot throws e (after its own catch has logged it when e was
\* raised inside its try); the catch of teardownTest logs e
CaptureFails(e, evs, inTry, l) ==
  TestEnds(evs \o (IF inTry THEN <<LogEv("log.error", e)>> ELSE <<>>)
               \o <<Ev("takeScreenshot.throw", Null, e), LogEv("log.error", e)>>,
           l, world)

\* teardownTest(testName, testPassed), up to the await of the remote
\* screenshot command (the screenshots directory is looked for, and made,
\* before it)
Call_teardownTest ==
  /\ pc = "idle"
  /\ Len(world.files) < MaxCaptures
  /\ op' = Call("teardownTest")
  /\ \E testName \in TestNames, testPassed \in BOOLEAN :
       LET l == [of |-> "teardownTest", testName |-> testName, testPassed |-> testPassed]
           call == <<[Ev("takeScreenshot.call", Null, NoError)
                        EXCEPT !.v = FailedName(testName)]>> IN
         IF ~tt_capture(testPassed, bt.driverManager)
           THEN TestEnds(<<>>, l, world)
         ELSE IF manager.driver = Null
           THEN CaptureFails(NotInitialized, call, FALSE, l)
         ELSE \/ Await("screenshot", call, l)
              \/ \E e \in FsErrors : CaptureFails(e, call, TRUE, l)
  /\ UNCHANGED <<bt, manager, sessions, element, prev>>

\* driver.takeScreenshot() resolves: the file is written under the name
\* (or writeFileSync throws), and takeScreenshot returns its path
ScreenshotResolves ==
  /\ pc = "screenshot"
  /\ ~sessions[manager.driver].closed
  /\ LET shot == <<Ev("takeScreenshot", manager.driver, NoError)>>
         name == FailedName(locals.testName) IN
       \/ TestEnds(shot \o <<[Ev("writeFile", Null, NoError) EXCEPT !.v = name],
                             LogEv("log.screenshot", NoError)>>,
                   locals,
                   [world EXCEPT !.files = Append(@, [name |-> name, by |-> locals.testName])])
       \/ \E e \in FsErrors :
            CaptureFails(e, shot \o <<[Ev("writeFile", Null, e) EXCEPT !.v = name]>>,
                         TRUE, locals)
  /\ UNCHANGED <<bt, manager, sessions, op, element, prev>>

\* driver.takeScreenshot() rejects
ScreenshotRejects ==
  /\ pc = "screenshot"
  /\ \E e \in RemoteErrors :
       CaptureFails(e, <<Ev("takeScreenshot", manager.driver, e)>>, TRUE, locals)
  /\ UNCHANGED <<bt, manager, sessions, op, element, prev>>

(***************************************************************************)
(* The afterEach hook alone, test after test: on a BaseTest before         *)
(* setupSuite, on the session setupSuite has left, or on a manager that    *)
(* the test has quit.                                                      *)
(***************************************************************************)
Init_Shot ==
  /\ \/ /\ bt = NewBaseTest
        /\ manager = NoManager
        /\ sessions = <<>>
     \/ /\ bt = [driverManager |-> 1, driver |-> 1, elementHelper |-> 1]
        /\ manager = [NewWebDriverManager(<<>>) EXCEPT !.driver = 1]
        /\ sessions = <<[NewSession EXCEPT !.timeouts = TRUE, !.url = U_login]>>
     \/ /\ bt = [driverManager |-> 1, driver |-> 1, elementHelper |-> 1]
        /\ manager = NewWebDriverManager(<<>>)
        /\ sessions = <<[NewSession EXCEPT !.timeouts = TRUE, !.url = U_login,
                                           !.quitCalls = 1, !.closed = TRUE]>>
  /\ op = Idle
  /\ pc = "idle"
  /\ attempt = 0
  /\ lastError = Undefined
  /\ element = Null
  /\ events = <<>>
  /\ result = NoResult
  /\ prev = NoPrev
  /\ locals = NoLocals
  /\ world = NoWorld

Next_Shot ==
  \/ Call_teardownTest
  \/ ScreenshotResolves
  \/ ScreenshotRejects
  \/ Finish

SpecShot == Init_Shot /\ [][Next_Shot]_vars
(***************************************************************************)
(* The login-page scenario as one recorded run, the remote agent           *)
(* resolving every command it is sent (the pre-check and the version       *)
(* probe, whose errors are swallowed, may still reject): setupSuite with a *)
(* supported browser, navigateTo a login url, elementExists on the three   *)
(* fields of the form, then quit or teardownSuite.  The runner and the     *)
(* agent go on as long as there is a step to take.                         *)
(***************************************************************************)
E2E_setupSuite ==
  /\ Len(world.seen) = 0
  /\ Call_setupSuite
  /\ manager'.browser \in {S_chrome, S_firefox}

E2E_navigateTo ==
  /\ Len(world.seen) = 1
  /\ Call_navigateTo
  /\ op'.url \in {U_login, U_loginNext}
  /\ op'.maxRetries = DefaultMaxRetries

E2E_elementExists ==
  /\ Len(world.seen) \in 2..4
  /\ Call_elementExists
  /\ locals'.locator = FormLocators[Len(world.seen) - 1]
  /\ locals'.timeout = ExistsTimeout

E2E_quit ==
  /\ Len(world.seen) = 5
  /\ \/ Call_quit
     \/ Call_teardownSuite

Next_E2E ==
  \/ E2E_setupSuite
  \/ BuildResolves
  \/ SetTimeoutsResolves
  \/ GetCapabilitiesSettles
  \/ E2E_navigateTo
  \/ GetCurrentUrlResolves
  \/ GetCurrentUrlRejects
  \/ GetResolves
  \/ E2E_elementExists
  \/ ExistsWaitResolves
  \/ E2E_quit
  \/ QuitResolves
  \/ Finish_Run

SpecE2E == Init /\ [][Next_E2E]_vars /\ WF_vars(Next_E2E)

(***************************************************************************)
(* CustomSequencer.sort: Array.prototype.sort (stable) under the           *)
(* comparator of the sequencer, over test files given by their paths.      *)
(***************************************************************************)
testOrder == << <<"l","o","g","i","n",".","t","e","s","t",".","j","s">>,
               <<"d","a","s","h","b","o","a","r","d",".","t","e","s","t",".","j","s">> >>

\* testOrder.findIndex(name => test.path.includes(name))
findIndex(test) ==
  LET found == { i \in 1..Len(testOrder) : includes(test.path, testOrder[i]) }
  IN  IF found = {} THEN -1
      ELSE (CHOOSE i \in found : \A j \in found : i <= j) - 1

\* (variant: a comparator without the cases for a file of neither name)
compare_plain(testA, testB) == findIndex(testA) - findIndex(testB)

compare(testA, testB) ==
  LET indexA == findIndex(testA)
      indexB == findIndex(testB)
  IN  IF indexA = -1 /\ indexB = -1 THEN 0
      ELSE IF indexA = -1 THEN 1
      ELSE IF indexB = -1 THEN -1
      ELSE indexA - indexB

\* a stable sort: each element goes before the first one it is less than
RECURSIVE sort(_)
sort(tests) ==
  IF tests = <<>> THEN <<>>
  ELSE LET n      == Len(tests)
           x      == tests[n]
           sorted == sort(SubSeq(tests, 1, n - 1))
           after  == { i \in 1..(n - 1) : compare(x, sorted[i]) < 0 }
           at     == IF after = {} THEN n
                     ELSE CHOOSE i \in after : \A j \in after : i <= j
       IN  SubSeq(sorted, 1, at - 1) \o <<x>> \o SubSeq(sorted, at, n - 1)

\* sort(tests): the array is sorted in place and returned
Call_sort ==
  /\ pc = "idle" /\ locals.of = "sort"
  /\ op' = Call("sort")
  /\ Return("returned", sort(locals.tests), NoError, <<>>,
            [locals EXCEPT !.tests = sort(locals.tests)], world)
  /\ UNCHANGED <<bt, manager, sessions, element, prev>>

\* sort(tests) is about to be called.  The files: one of either name or of
\* neither, at the top or in a directory named like a test file.
Init_Seq ==
  LET names     == { testOrder[i] : i \in 1..Len(testOrder) }
      TestPaths == { d \o f : d \in { <<>> } \cup { n \o <<"/">> : n \in names },
                              f \in names \cup { <<"h","o","m","e",".","t","e","s","t",".","j","s">> } }
      TestLists == UNION { [1..n -> { [path |-> p] : p \in TestPaths }] : n \in 0..MaxTests }
  IN
  /\ bt = NewBaseTest
  /\ manager = NoManager
  /\ sessions = <<>>
  /\ op = Idle
  /\ pc = "idle"
  /\ attempt = 0
  /\ lastError = Undefined
  /\ element = Null
  /\ events = <<>>
  /\ result = NoResult
  /\ prev = NoPrev
  /\ \E tests \in TestLists : locals = [of |-> "sort", tests |-> tests, given |-> tests]
  /\ world = NoWorld

Next_Seq ==
  \/ Call_sort
  \/ Finish

SpecSeq == Init_Seq /\ [][Next_Seq]_vars

(***************************************************************************)
(* BaseTest.waitForPageReady, and the life of a suite: setupSuite,         *)
(* navigateTo, handlePopups, waitForPageReady and teardownSuite in any     *)
(* order.                                                                  *)
(***************************************************************************)
\* waitForPageReady(): throw without a driver, else driver.wait(...)
Call_waitForPageReady ==
  /\ pc = "idle"
  /\ op' = Call("waitForPageReady")
  /\ IF bt.driver = Null
       THEN Done("threw", Null, NotInitialized, <<>>)
       ELSE Goto("readyWait", 0, Undefined, <<>>)
  /\ UNCHANGED <<bt, manager, sessions, element, prev>>

\* the wait resolves (document.readyState was 'complete'), or it rejects
\* (timeout, or a failed executeScript) and the catch warns: either way
\* waitForPageReady returns
ReadyWaitSettles ==
  /\ pc = "readyWait"
  /\ \E r \in {NoError} \cup RemoteErrors :
       /\ r = NoError => ~sessions[bt.driver].closed
       /\ Done("returned", Null, NoError,
               <<Ev("executeScript", bt.driver, r)>>
                 \o (IF r = NoError THEN <<>> ELSE <<LogEv("log.warn", r)>>))
  /\ UNCHANGED <<bt, manager, sessions, op, element, prev>>

Next_Life ==
  \/ Call_setupSuite
  \/ BuildResolves
  \/ BuildRejects
  \/ RetryDelayElapses
  \/ SetTimeoutsResolves
  \/ SetTimeoutsRejects
  \/ GetCapabilitiesSettles
  \/ Call_navigateTo
  \/ GetCurrentUrlResolves
  \/ GetCurrentUrlRejects
  \/ GetResolves
  \/ GetRejects
  \/ NavDelayElapses
  \/ Call_handlePopups
  \/ GetAllWindowHandlesResolves
  \/ GetAllWindowHandlesRejects
  \/ PopGraceElapses
  \/ FindElementsResolves
  \/ FindElementsRejects
  \/ IsDisplayedResolves
  \/ IsDisplayedRejects
  \/ IsEnabledResolves
  \/ IsEnabledRejects
  \/ PopClickResolves
  \/ PopClickRejects
  \/ PopSettleElapses
  \/ Call_waitForPageReady
  \/ ReadyWaitSettles
  \/ Call_teardownSuite
  \/ QuitResolves
  \/ QuitRejects
  \/ Finish

SpecLife == Init /\ [][Next_Life]_vars

(***************************************************************************)
(* The hooks of a suite whose setup may fail: setupSuite, teardownTest and *)
(* teardownSuite in any order.                                             *)
(***************************************************************************)
Next_Hooks ==
  \/ Call_setupSuite
  \/ BuildResolves
  \/ BuildRejects
  \/ RetryDelayElapses
  \/ SetTimeoutsResolves
  \/ SetTimeoutsRejects
  \/ GetCapabilitiesSettles
  \/ Call_teardownTest
  \/ ScreenshotResolves
  \/ ScreenshotRejects
  \/ Call_teardownSuite
  \/ QuitResolves
  \/ QuitRejects
  \/ Finish

SpecHooks == Init /\ [][Next_Hooks]_vars


(***************************************************************************)
(* The claims.  They are stated over the history of the call in progress   *)
(* (events), its result, and the objects' fields; the urls of the model    *)
(* that contain '/login' are listed, not computed.                         *)
(***************************************************************************)
InCreateDriver == op.name \in {"createDriver", "setupSuite"}
BrowserIsSupported == manager.browser \in {S_chrome, S_firefox}
Positions(k) == { i \in 1..Len(events) : events[i].k = k }
FailedPositions(ks) == { i \in 1..Len(events) : events[i].k \in ks /\ events[i].err # NoError }
LastOf(S) == CHOOSE i \in S : \A j \in S : j <= i
LoginUrls == {U_login, U_loginNext}
Matches(currentUrl, url) ==
  currentUrl = url \/ (url \in LoginUrls /\ currentUrl \in LoginUrls)

\* C1: with a supported browser and every builder.build() failing, a
\* createDriver call makes exactly 3 build attempts and then throws: no 4th
\* attempt is ever made and it never gives up after fewer than 3 failures.
C1_ExactlyThreeBuilds ==
  InCreateDriver =>
    /\ Count("build") <= 3
    /\ (pc = "done" /\ BrowserIsSupported /\ CountOk("build") = 0)
         => (CountFailed("build") = 3 /\ result.status = "threw")

C1_Witness ==
  /\ pc = "done" /\ op.name = "createDriver"
  /\ CountFailed("build") = 3 /\ result.status = "threw"

\* C2 as stated: with a supported browser, whenever createDriver throws, all 3
\* build attempts were made and all failed (it never throws after a build
\* succeeded).
C2_ThrowsOnlyAfterThreeFailedBuilds ==
  (InCreateDriver /\ pc = "done" /\ result.status = "threw" /\ BrowserIsSupported)
    => (CountFailed("build") = 3 /\ CountOk("build") = 0)

\* C2 amended: with a supported browser, whenever createDriver throws, either
\* all 3 build attempts were made and all failed, or a build succeeded and the
\* setTimeouts call on the built session failed, whose error is the one thrown.
C2_ThrowsAfterBuildsOrTimeouts ==
  (InCreateDriver /\ pc = "done" /\ result.status = "threw" /\ BrowserIsSupported)
    => \/ /\ CountFailed("build") = 3
          /\ CountOk("build") = 0
          /\ Count("setTimeouts") = 0
       \/ /\ CountOk("build") = 1
          /\ CountFailed("setTimeouts") = 1
          /\ result.err = events[LastOf(Positions("setTimeouts"))].err
          /\ events[LastOf(Positions("setTimeouts"))].s = events[LastOf(Positions("build"))].s

C2_Witness ==
  /\ pc = "done" /\ op.name = "setupSuite" /\ result.status = "threw"
  /\ CountFailed("build") = 2 /\ CountOk("build") = 1
  /\ CountFailed("setTimeouts") = 1

\* C3: when the browser name, lower-cased, is neither 'chrome' nor 'firefox',
\* createDriver fails at once with the unsupported-browser error: no build
\* attempt, no retry delay, and manager.driver stays null.
C3_UnsupportedFailsImmediately ==
  (InCreateDriver /\ manager.browser \notin {S_chrome, S_firefox}) =>
    /\ pc = "done"
    /\ result.status = "threw"
    /\ result.err = UnsupportedBrowser
    /\ Count("build") = 0
    /\ Count("delay") = 0
    /\ manager.driver = Null

C3_Witness ==
  /\ pc = "done" /\ op.name = "setupSuite"
  /\ manager.browser = <<"s","a","f","a","r","i">>
  /\ result.err = UnsupportedBrowser

\* the calls that ended with their retry budget used up, every attempt failed
Exhausted ==
  /\ pc = "done"
  /\ \/ InCreateDriver /\ CountFailed("build") = 3
     \/ /\ op.name = "navigateTo"
        /\ op.maxRetries >= 1
        /\ CountFailed("get") = op.maxRetries
     \/ /\ op.name = "clickElement"
        /\ op.maxRetries >= 1
        /\ Cardinality(FailedPositions({"findElement.throw", "click"})) = op.maxRetries

\* the attempts of the call in progress, and the error the last one raised
AttemptsMade ==
  IF InCreateDriver THEN Count("build")
  ELSE IF op.name = "navigateTo" THEN Count("get")
  ELSE Cardinality(FailedPositions({"findElement.throw", "click"})) + CountOk("click")

LastAttemptError ==
  events[LastOf(FailedPositions({"build", "get", "findElement.throw", "click"}))].err

\* C4 as stated: when a retry budget is exhausted (session creation,
\* navigation, click) the error surfaced to the caller identifies the total
\* attempt count.
C4_ErrorNamesAttemptCount ==
  Exhausted => (result.status = "threw" /\ result.err.attempts = AttemptsMade)

\* C4 amended: when a retry budget is exhausted (session creation,
\* navigation, click) the error surfaced to the caller is the error raised by
\* the last attempt, rethrown as it is: it names no attempt count.
C4_ErrorIsLastAttemptError ==
  Exhausted =>
    /\ result.status = "threw"
    /\ result.err = LastAttemptError
    /\ result.err.attempts = 0

C4_Witness ==
  /\ Exhausted /\ InCreateDriver
  /\ events[1].err = Err("remote2", 0)
  /\ result.err = Err("remote1", 0)

\* C5: whenever createDriver returns a session, setTimeouts has completed
\* successfully on that session before; no caller (a test, or setupSuite,
\* which stores it in BaseTest.driver) holds a session with default timeouts.
C5_ReturnedSessionHasTimeouts ==
  /\ \A i \in Positions("createDriver.return") :
       /\ events[i].s # Null
       /\ sessions[events[i].s].timeouts
       /\ \E j \in 1..(i - 1) : events[j] = Ev("setTimeouts", events[i].s, NoError)
  /\ (pc = "done" /\ op.name = "createDriver" /\ result.status = "returned")
       => (result.value # Null /\ sessions[result.value].timeouts)
  /\ bt.driver # Null => sessions[bt.driver].timeouts

C5_Witness ==
  /\ pc = "done" /\ op.name = "createDriver" /\ result.status = "returned"
  /\ result.value # Null /\ CountFailed("build") = 1

\* C6: quit is idempotent: called while the manager has no driver (never
\* created, or already quit) it issues no remote command and returns normally;
\* driver.quit() is invoked once on the session of a quit call that had a
\* driver, and never more than once on any session.
C6_QuitIdempotent ==
  /\ \A s \in 1..Len(sessions) : sessions[s].quitCalls <= 1
  /\ (op.name = "quit" /\ events[1].s = Null)
       => (pc = "done" /\ result.status = "returned" /\ Count("quit") = 0)
  /\ (op.name = "quit" /\ pc = "done" /\ events[1].s # Null)
       => sessions[events[1].s].quitCalls = 1

C6_Witness ==
  /\ op.name = "quit" /\ pc = "done" /\ events[1].s = Null
  /\ bt.driver # Null /\ sessions[bt.driver].quitCalls = 1

\* C7: quit never throws: when driver.quit() fails, the error is caught and
\* logged at error level, quit returns normally (to the test or to
\* teardownSuite) and manager.driver is null afterwards.
C7_QuitNeverThrows ==
  (op.name \in {"quit", "teardownSuite"} /\ pc = "done" /\ Count("quit.call") = 1) =>
    /\ Count("quit.return") = 1
    /\ result.status = "returned"
    /\ manager.driver = Null
    /\ \A i \in FailedPositions({"quit"}) :
         \E j \in (i + 1)..Len(events) : events[j] = LogEv("log.error", events[i].err)

C7_Witness ==
  /\ op.name = "quit" /\ pc = "done"
  /\ CountFailed("quit") = 1 /\ result.status = "returned"

\* C8: navigateTo(url) issues no driver.get and returns normally when
\* getCurrentUrl reports a location that equals url, or when url and that
\* location both contain '/login'.
C8_ShortCircuit ==
  ( /\ op.name = "navigateTo"
    /\ Len(events) >= 1
    /\ events[1].k = "getCurrentUrl"
    /\ events[1].err = NoError
    /\ Matches(events[1].v, op.url) )
  => (pc = "done" /\ result.status = "returned" /\ Count("get") = 0)

C8_Witness ==
  /\ op.name = "navigateTo" /\ pc = "done" /\ result.status = "returned"
  /\ op.url = U_login
  /\ Len(events) >= 1 /\ events[1].k = "getCurrentUrl" /\ events[1].v = U_loginNext

\* two consecutive navigateTo calls with a cooperative browser: the first
\* issued one load, which succeeded; the pre-check of the second succeeded,
\* none of its loads failed and it returned
TwoCooperativeCalls ==
  /\ op.name = "navigateTo" /\ pc = "done"
  /\ prev.status = "returned" /\ prev.gets = 1
  /\ events[1].k = "getCurrentUrl" /\ events[1].err = NoError
  /\ CountFailed("get") = 0
  /\ result.status = "returned"

\* C9 as stated: two consecutive navigateTo calls with the same url (or with
\* urls that match each other under the rule) trigger exactly one driver.get,
\* and two consecutive calls with urls that do not match trigger exactly two.
C9_LoadsByUrlsOfTheCalls ==
  TwoCooperativeCalls =>
    /\ Matches(prev.url, op.url) => prev.gets + Count("get") = 1
    /\ ~Matches(prev.url, op.url) => prev.gets + Count("get") = 2

\* C9 amended: two consecutive navigateTo calls, the first of which issues one
\* load that succeeds, trigger exactly one driver.get when the location that
\* load left the session at matches the second call's url (equal, or both
\* contain '/login'), and exactly two when it does not and the second call's
\* load succeeds at its first attempt.
C9_LoadsByLocationLeft ==
  TwoCooperativeCalls =>
    /\ Matches(prev.landed, op.url) => prev.gets + Count("get") = 1
    /\ ~Matches(prev.landed, op.url) => prev.gets + Count("get") = 2

C9_Witness ==
  /\ TwoCooperativeCalls
  /\ prev.url = U_secure /\ op.url = U_secure /\ prev.landed = U_secure
  /\ Count("get") = 0

\* C10: when not short-circuited, navigateTo issues at most maxRetries
\* driver.get commands, stops at the first that succeeds (returning), and when
\* all of them fail it throws the error the last attempt raised.
C10_BoundedLoads ==
  op.name = "navigateTo" =>
    /\ Count("get") <= op.maxRetries
    /\ \A i \in Positions("get") :
         events[i].err = NoError =>
           /\ pc = "done"
           /\ result.status = "returned"
           /\ \A j \in Positions("get") : j <= i
    /\ (pc = "done" /\ Count("get") >= 1 /\ CountOk("get") = 0)
         => /\ result.status = "threw"
            /\ result.err = events[LastOf(Positions("get"))].err

C10_Witness ==
  /\ op.name = "navigateTo" /\ pc = "done" /\ op.maxRetries = DefaultMaxRetries
  /\ CountFailed("get") = 2 /\ CountOk("get") = 0
  /\ result.err = Err("remote2", 0)
  /\ \E i \in Positions("get") : events[i].err = Err("remote1", 0)

(***************************************************************************)
(* Popup suppression                                                       *)
(***************************************************************************)
PopupCommands == {"getAllWindowHandles", "findElements", "isDisplayed", "isEnabled", "click"}
ButtonCommands == {"isDisplayed", "isEnabled", "click"}
InHandlePopups == op.name = "handlePopups"
LoadSucceeded == op.name = "navigateTo" /\ CountOk("get") = 1
NoCommandFailed == \A i \in 1..Len(events) : events[i].err = NoError
\* the controls of the lookup that the page reports displayed and enabled
Ready(dismissButtons) ==
  { i \in 1..Len(dismissButtons) :
      dismissButtons[i].displayed /\ dismissButtons[i].enabled }
\* the lookup of this call has resolved with at least one control
LookedUp == InHandlePopups /\ locals.of = "handlePopups" /\ locals.dismissButtons # <<>>

\* C11 (as stated): every navigateTo call whose load succeeds runs one
\* popup-suppression pass (its window-handle check is issued once) before it
\* returns.
C11_LoadFollowedByPopupPass ==
  (pc = "done" /\ LoadSucceeded) => Count("getAllWindowHandles") = 1

\* C11 (amended): a navigateTo call whose load succeeds returns as soon as
\* the load has resolved: the load is the last thing the call does and the
\* call issues no command of the popup-suppression pass.
C11_LoadReturnsWithoutPopupPass ==
  op.name = "navigateTo" =>
    /\ \A i \in 1..Len(events) : events[i].k \notin PopupCommands
    /\ LoadSucceeded =>
         /\ pc = "done"
         /\ result.status = "returned"
         /\ events[Len(events)] = Ev("get", bt.driver, NoError)

C11_Witness ==
  /\ pc = "done" /\ LoadSucceeded /\ result.status = "returned"
  /\ CountFailed("get") = 1

\* C12: handlePopups never fails its caller: with or without a driver, and
\* whichever of its remote commands rejects, the call returns normally.
C12_HandlePopupsNeverThrows ==
  InHandlePopups =>
    /\ result.status # "threw"
    /\ pc = "done" => result.status = "returned" /\ result.err = NoError

C12_Witness ==
  /\ InHandlePopups /\ pc = "done" /\ result.status = "returned"
  /\ CountFailed("findElements") = 1

\* C13: when the window-handle check reports no handle, handlePopups ends
\* there: no element lookup, no query of a control and no click follow.
C13_NoWindowsNoOp ==
  (InHandlePopups /\ \E i \in 1..Len(events) :
       events[i] = EvSeen("getAllWindowHandles", bt.driver, <<>>))
    => /\ pc = "done"
       /\ Count("findElements") = 0
       /\ \A k \in ButtonCommands : Count(k) = 0
       /\ Count("delay") = 0

C13_Witness ==
  /\ InHandlePopups /\ pc = "done"
  /\ events = <<EvSeen("getAllWindowHandles", bt.driver, <<>>), LogEv("log.warn", NoError)>>

\* C14: every click of handlePopups is on a control for which, earlier in
\* the same call, isDisplayed() and isEnabled() both resolved with true.
C14_ClicksOnlyDisplayedAndEnabled ==
  InHandlePopups =>
    \A i \in Positions("click") :
      /\ \E j \in 1..(i - 1) : events[j] = EvSeen("isDisplayed", events[i].s, <<"true">>)
      /\ \E j \in 1..(i - 1) : events[j] = EvSeen("isEnabled", events[i].s, <<"true">>)

C14_Witness ==
  /\ InHandlePopups /\ pc = "done" /\ CountOk("click") = 1
  /\ Len(locals.dismissButtons) = 2
  /\ ~locals.dismissButtons[2].displayed

\* C15 (as stated): when no command fails and some control of the lookup is
\* displayed and enabled, handlePopups clicks the first such control in
\* lookup order, also when it is not the first control of the lookup.
C15_ClicksFirstReadyCandidate ==
  (LookedUp /\ pc = "done" /\ NoCommandFailed /\ Ready(locals.dismissButtons) # {})
    => \E i \in Positions("click") :
         /\ events[i].s \in Ready(locals.dismissButtons)
         /\ \A r \in Ready(locals.dismissButtons) : events[i].s <= r

\* C15 (amended): handlePopups queries and clicks only the first control of
\* the lookup; when no command fails it clicks that control exactly when it
\* is displayed and enabled, whatever the later controls are.
C15_OnlyFirstCandidateExamined ==
  InHandlePopups =>
    /\ \A i \in 1..Len(events) : events[i].k \in ButtonCommands => events[i].s = 1
    /\ (LookedUp /\ pc = "done" /\ NoCommandFailed)
         => (Count("click") = 1 <=> 1 \in Ready(locals.dismissButtons))

C15_Witness ==
  /\ LookedUp /\ pc = "done" /\ NoCommandFailed
  /\ Ready(locals.dismissButtons) = {2}
  /\ Count("isDisplayed") = 1
  /\ Count("click") = 0

\* C16: one handlePopups call issues at most one click.
C16_AtMostOneClick ==
  InHandlePopups => Count("click") <= 1

C16_Witness ==
  /\ InHandlePopups /\ pc = "done" /\ CountFailed("click") = 1
  /\ Ready(locals.dismissButtons) = {1, 2}

\* C17 (as stated): every command of handlePopups that rejects is followed
\* by a warning-level log line carrying its error.
C17_EveryErrorWarned ==
  (InHandlePopups /\ pc = "done") =>
    \A i \in 1..Len(events) :
      (events[i].k \in PopupCommands /\ events[i].err # NoError)
        => \E j \in (i + 1)..Len(events) : events[j] = LogEv("log.warn", events[i].err)

\* C17 (amended): a rejected getAllWindowHandles or findElements is followed
\* by a warning-level log line carrying its error; a rejected isDisplayed,
\* isEnabled or click is caught and followed by no log line at all.
C17_OuterErrorsWarnedInnerSilent ==
  (InHandlePopups /\ pc = "done") =>
    \A i \in 1..Len(events) :
      /\ (events[i].k \in {"getAllWindowHandles", "findElements"} /\ events[i].err # NoError)
           => /\ i + 1 = Len(events)
              /\ events[i + 1] = LogEv("log.warn", events[i].err)
      /\ (events[i].k \in ButtonCommands /\ events[i].err # NoError)
           => i = Len(events)

C17_Witness ==
  /\ InHandlePopups /\ pc = "done"
  /\ CountFailed("isEnabled") = 1
  /\ Count("log.warn") = 0

(***************************************************************************)
(* Element helper                                                          *)
(***************************************************************************)
Finished(name) == pc = "done" /\ op.name = name
WaitSucceeded == events # <<>> /\ events[1].k = "wait" /\ events[1].err = NoError
WaitFailed == events # <<>> /\ events[1].k = "wait" /\ events[1].err # NoError

\* C18: findElement returns the element its wait located; when the wait
\* fails it throws 'Element not found: <locator> within <timeout>ms', not the
\* error the wait raised.
C18_FindElementReturnsOrNotFound ==
  Finished("findElement") =>
    /\ WaitSucceeded \/ WaitFailed
    /\ WaitSucceeded => result.status = "returned" /\ result.value = events[1].s
    /\ WaitFailed =>
         /\ result.status = "threw"
         /\ result.err = ElementNotFoundFor(locals.locator, locals.timeout)
         /\ result.err # events[1].err

C18_Witness ==
  /\ Finished("findElement") /\ WaitFailed
  /\ result.status = "threw"
  /\ result.err.msg = "Element not found: By(css selector, .flash) within 1000ms"

\* C19: elementExists never throws: it returns true exactly when its wait
\* located the element and false whenever the wait failed.
C19_ElementExistsNeverThrows ==
  Finished("elementExists") =>
    /\ result.status = "returned"
    /\ result.err = NoError
    /\ WaitSucceeded \/ WaitFailed
    /\ WaitSucceeded => result.value = TRUE
    /\ WaitFailed => result.value = FALSE

C19_Witness ==
  /\ Finished("elementExists") /\ WaitFailed
  /\ result.status = "returned" /\ result.value = FALSE

\* C20: getElementText never throws: it returns defaultText when the lookup
\* fails (and when getText fails), and the text getText reported when the
\* element is found and read.
C20_GetElementTextNeverThrows ==
  Finished("getElementText") =>
    /\ result.status = "returned"
    /\ result.err = NoError
    /\ WaitFailed => result.value = locals.defaultText
    /\ WaitSucceeded =>
         LET last == events[Len(events)] IN
           /\ last.k = "getText" /\ last.s = events[1].s
           /\ last.err = NoError => result.value = last.v[1]
           /\ last.err # NoError => result.value = locals.defaultText

C20_Witness ==
  /\ Finished("getElementText") /\ WaitFailed
  /\ locals.defaultText = "n/a" /\ result.value = "n/a"

(***************************************************************************)
(* Form filling                                                            *)
(***************************************************************************)
InFillForm == op.name = "fillForm" /\ locals.of = "fillForm"
FieldsAt(ats) == \A sel \in DOMAIN locals.at : locals.at[sel] \in ats
LookupsSucceeded ==
  \A sel \in DOMAIN locals.at :
    \E i \in 1..Len(events) : events[i] = FieldEv("find", sel, NoError)
Filled == \A sel \in DOMAIN locals.at : world.form[sel] = locals.fieldMap[sel]

InClickElement == op.name = "clickElement"
\* the first lookup of the call failed and its second lookup succeeded
SecondLookupSucceeds ==
  LET w == Positions("wait") IN
    /\ Cardinality(w) = 2
    /\ \A i \in w : (\A j \in w : i <= j) => events[i].err # NoError
    /\ \A i \in w : (\A j \in w : j <= i) => events[i].err = NoError

\* C22 (as stated): a clickElement call with maxRetries = 2 whose first
\* lookup fails and whose second lookup succeeds returns normally, its click
\* being on the handle of the second lookup.
C22_SecondLookupCompletes ==
  (InClickElement /\ pc = "done" /\ op.maxRetries = 2 /\ SecondLookupSucceeds)
    => /\ result.status = "returned"
       /\ events[Len(events)] = Ev("click", events[Len(events) - 1].s, NoError)

\* C22 (amended): every click of clickElement is on the handle that the
\* lookup of the same attempt has just returned, never on a handle of an
\* earlier attempt; and a call with maxRetries = 2 whose first lookup fails,
\* whose second lookup succeeds and whose click on that handle succeeds
\* returns normally.
C22_FreshHandleClicked ==
  InClickElement =>
    /\ \A i \in Positions("click") :
         /\ events[i - 1] = Ev("wait", events[i].s, NoError)
         /\ \A j \in 1..(i - 2) : events[j].k = "wait" => events[j].s # events[i].s
    /\ (pc = "done" /\ op.maxRetries = 2 /\ SecondLookupSucceeds /\ CountOk("click") = 1)
         => result.status = "returned"

C22_Witness ==
  /\ InClickElement /\ pc = "done" /\ op.maxRetries = 2 /\ SecondLookupSucceeds
  /\ CountOk("click") = 1 /\ result.status = "returned"

\* C23: clickElement makes at most maxRetries attempts (a lookup, then a
\* click), goes on to the next attempt after a failed lookup and after a
\* failed click, returns at the first click that succeeds, and when all its
\* attempts have failed throws the error of the last one.
C23_BoundedAttempts ==
  InClickElement =>
    /\ Count("wait") <= op.maxRetries
    /\ Count("click") <= CountOk("wait")
    /\ \A i \in Positions("click") :
         events[i].err = NoError =>
           /\ pc = "done" /\ result.status = "returned"
           /\ i = Len(events)
    /\ (pc = "done" /\ CountOk("click") = 0)
         => /\ result.status = "threw"
            /\ Count("wait") = op.maxRetries \/ op.maxRetries <= 0
            /\ Count("wait") >= 1 => result.err = events[Len(events)].err

C23_Witness ==
  /\ InClickElement /\ pc = "done" /\ op.maxRetries = 2
  /\ CountFailed("wait") = 1 /\ CountFailed("click") = 1
  /\ events[1].k = "wait" /\ events[1].err # NoError
  /\ result.status = "threw" /\ result.err = Err("remote2", 0)

\* the positions at which an attempt of the retry loop in progress starts
Attempts == Positions("build") \cup Positions("get") \cup Positions("wait")

\* C30: in the retry loops of driver creation, navigateTo and clickElement
\* exactly one delay lies between two consecutive attempts, no delay comes
\* before the first attempt or after an attempt that succeeded, and after the
\* last failed attempt the call fails without a further delay.
C30_DelaysBetweenAttemptsOnly ==
  op.name \in {"createDriver", "setupSuite", "navigateTo", "clickElement"} =>
    LET d == Positions("delay") IN
      /\ \A p \in Attempts, q \in Attempts :
           (p < q /\ \A r \in Attempts : ~(p < r /\ r < q))
             => Cardinality({ i \in d : p < i /\ i < q }) = 1
      /\ \A i \in d : \E p \in Attempts : p < i
      /\ \A i \in d : \A j \in 1..(i - 1) :
           events[j].k \in {"build", "get", "click"} => events[j].err # NoError
      /\ Cardinality({ i \in d : \A p \in Attempts : p < i }) <= 1
      /\ pc = "done" => \A i \in d : \E p \in Attempts : i < p

C30_Witness ==
  /\ op.name = "setupSuite" /\ pc = "done" /\ result.status = "threw"
  /\ CountFailed("build") = 3 /\ Count("delay") = 2

(***************************************************************************)
(* Sessions of one BaseTest                                                *)
(***************************************************************************)
\* the sessions built and not yet quit
Live == { i \in 1..Len(sessions) : ~sessions[i].closed }

\* C24 (as stated): whatever setupSuite / teardownSuite calls a BaseTest has
\* received, at most one session created through it is built and not yet
\* quit.
C24_AtMostOneLiveSession ==
  Cardinality(Live) <= 1

\* the call in progress follows at once a teardownSuite call of the run
AfterTeardownSuite ==
  world.seen # <<>> /\ world.seen[Len(world.seen)].name = "teardownSuite"

\* C27: teardownSuite never throws and, whether or not driver.quit() fails,
\* leaves driverManager, driver and elementHelper null; a teardownSuite call
\* that follows another issues no remote command.
C27_TeardownSuiteNullsFields ==
  op.name = "teardownSuite" =>
    /\ result.status # "threw"
    /\ pc = "done" =>
         /\ result.status = "returned"
         /\ bt.driverManager = 0 /\ bt.driver = Null /\ bt.elementHelper = Null
    /\ AfterTeardownSuite =>
         /\ pc = "done"
         /\ \A i \in 1..Len(events) : events[i].s = Null /\ events[i].k # "quit"

C27_Witness ==
  /\ op.name = "teardownSuite" /\ pc = "done" /\ AfterTeardownSuite
  /\ Len(sessions) = 1 /\ sessions[1].quitCalls = 1 /\ ~sessions[1].closed
  /\ world.seen[1] = [name |-> "setupSuite", status |-> "returned", value |-> Null]

(***************************************************************************)
(* teardownTest and the failure screenshots                                *)
(***************************************************************************)
FinishedTeardownTest == op.name = "teardownTest" /\ pc = "done"
TestEndEvent(r) == [LogEv("log.testEnd", NoError) EXCEPT !.v = <<r>>]

\* C25: teardownTest never throws: when the failure screenshot cannot be
\* taken (the manager has no driver, the remote capture or the write fails)
\* the error is logged at error level by teardownTest and the one testEnd
\* event, carrying the result testPassed stands for, still follows.
C25_TeardownTestNeverThrows ==
  op.name = "teardownTest" =>
    /\ result.status # "threw"
    /\ pc = "done" =>
         /\ result.status = "returned"
         /\ Count("log.testEnd") = 1
         /\ events[Len(events) - 1]
              = TestEndEvent(IF locals.testPassed THEN "passed" ELSE "failed")
         /\ \A i \in Positions("takeScreenshot.throw") :
              events[i + 1] = LogEv("log.error", events[i].err)
         /\ (Count("takeScreenshot.call") = 1 /\ Count("writeFile") = CountFailed("writeFile"))
              => Count("takeScreenshot.throw") = 1

C25_Witness ==
  /\ FinishedTeardownTest /\ result.status = "returned"
  /\ CountFailed("writeFile") = 1
  /\ events[Len(events) - 1] = TestEndEvent("failed")

\* C26: teardownTest calls takeScreenshot exactly when testPassed is false
\* and the BaseTest has a driver manager; a passing test's teardown issues no
\* remote screenshot command and writes no file.
C26_CaptureOnlyOnFailure ==
  FinishedTeardownTest =>
    /\ Count("takeScreenshot.call") = 1 <=> (~locals.testPassed /\ bt.driverManager # 0)
    /\ Count("takeScreenshot.call") <= 1
    /\ locals.testPassed => Count("takeScreenshot") = 0 /\ Count("writeFile") = 0

C26_Witness ==
  /\ FinishedTeardownTest /\ locals.testPassed
  /\ bt.driverManager # 0 /\ manager.driver # Null
  /\ Count("takeScreenshot.call") = 0

\* C29 (as stated, for the captures of teardownTest): two captures made for
\* two distinct test names are written under two distinct file names.
C29_DistinctTestsDistinctFiles ==
  \A i \in 1..Len(world.files), j \in 1..Len(world.files) :
    world.files[i].by # world.files[j].by => world.files[i].name # world.files[j].name

(***************************************************************************)
(* The login-page scenario                                                 *)
(***************************************************************************)
\* the scenario has run to its end: session closed, nothing thrown
Completed ==
  /\ Len(world.seen) = 5
  /\ op.name \in {"quit", "teardownSuite"} /\ pc = "done"
  /\ result.status = "returned"
  /\ Len(sessions) = 1 /\ sessions[1].closed /\ sessions[1].quitCalls = 1

\* no call of the scenario has thrown, and each existence check that has
\* ended has answered true
NothingFailed ==
  /\ result.status # "threw"
  /\ \A i \in 1..Len(world.seen) :
       /\ world.seen[i].status = "returned"
       /\ world.seen[i].name = "elementExists" => world.seen[i].value = TRUE

\* C28: with an agent that resolves every command, the scenario create
\* session, navigate to a login url, check that three fields exist, quit
\* always reaches its end, with three existence results of true, the session
\* closed and no call having thrown.
C28_ScenarioCompletes ==
  /\ [](NothingFailed)
  /\ <>(Completed /\ NothingFailed)

C28_Witness ==
  /\ Completed
  /\ \A i \in 3..5 : world.seen[i] = [name |-> "elementExists", status |-> "returned", value |-> TRUE]
  /\ world.seen[2].name = "navigateTo"
  /\ op.name = "quit"

(***************************************************************************)
(* CustomSequencer.sort                                                    *)
(***************************************************************************)
Sorted == op.name = "sort" /\ pc = "done"
IsLogin(test) == includes(test.path, testOrder[1])
IsDashboard(test) == includes(test.path, testOrder[2])
\* the class of a file: the first name of testOrder its path contains
Rank(test) ==
  IF IsLogin(test) THEN 1 ELSE IF IsDashboard(test) THEN 2 ELSE 3
SameFiles(a, b) ==
  /\ Len(a) = Len(b)
  /\ \A t \in { a[i] : i \in DOMAIN a } :
       Cardinality({ i \in DOMAIN a : a[i] = t }) = Cardinality({ i \in DOMAIN b : b[i] = t })

\* C31 (as stated): in the sorted list every file whose path contains
\* 'login.test.js' precedes every file whose path contains
\* 'dashboard.test.js', and every file of neither name comes after all files
\* of one of the names.
C31_LoginPrecedesDashboard ==
  Sorted =>
    \A i, j \in DOMAIN result.value :
      /\ IsLogin(result.value[i]) /\ IsDashboard(result.value[j]) => i < j
      /\ (~IsLogin(result.value[i]) /\ ~IsDashboard(result.value[i])
            /\ (IsLogin(result.value[j]) \/ IsDashboard(result.value[j]))) => j < i

\* C31 (amended): the sorted list holds the given files, ordered by the first
\* name of testOrder that the path contains: login files, then files that
\* contain 'dashboard.test.js' and not 'login.test.js', then the others.
C31_OrderedByFirstMatch ==
  Sorted =>
    /\ SameFiles(result.value, locals.given)
    /\ locals.tests = result.value
    /\ \A i, j \in DOMAIN result.value :
         i < j => Rank(result.value[i]) <= Rank(result.value[j])

C31_Witness ==
  /\ Sorted
  /\ Len(locals.given) = 3
  /\ Rank(locals.given[1]) = 3 /\ Rank(locals.given[2]) = 2 /\ Rank(locals.given[3]) = 1
  /\ result.value = << locals.given[3], locals.given[2], locals.given[1] >>
  /\ IsDashboard(locals.given[3])

(***************************************************************************)
(* The pre-check of navigateTo                                             *)
(***************************************************************************)
PreCheckFailed ==
  /\ op.name = "navigateTo" /\ Len(events) >= 1
  /\ events[1].k = "getCurrentUrl" /\ events[1].err # NoError

\* C32: when the getCurrentUrl pre-check of navigateTo rejects, the error is
\* swallowed (it is neither thrown nor logged) and the call goes on as when
\* the browser is elsewhere: with a budget of at least one attempt the load
\* command is issued at once, at most maxRetries loads are issued, the call
\* returns at the first load that succeeds and throws, with the last load's
\* error, only when maxRetries loads have failed.
C32_PreCheckErrorSwallowed ==
  PreCheckFailed =>
    /\ Len(events) >= 2 => events[2].k \notin {"log.warn", "log.error"}
    /\ op.maxRetries >= 1 =>
         /\ Len(events) >= 2 /\ events[2].k = "log.step"
         /\ pc = "get" \/ Count("get") >= 1
    /\ Count("get") <= op.maxRetries
    /\ pc = "done" =>
         \/ /\ result.status = "returned"
            /\ CountOk("get") = 1
            /\ events[LastOf(Positions("get"))].err = NoError
         \/ /\ result.status = "threw"
            /\ CountFailed("get") = op.maxRetries /\ CountOk("get") = 0
            /\ result.err = IF op.maxRetries >= 1
                              THEN events[LastOf(Positions("get"))].err
                              ELSE FailedToNavigate(op.maxRetries)

C32_Witness ==
  /\ PreCheckFailed /\ pc = "done"
  /\ op.maxRetries = DefaultMaxRetries
  /\ result.status = "returned"
  /\ CountFailed("get") = 1 /\ CountOk("get") = 1

(***************************************************************************)
(* A session built but not configured                                      *)
(***************************************************************************)
InQuit == op.name \in {"quit", "teardownSuite"}
\* the quit commands sent to a session whose timeouts were never set: outside
\* createDriver such a session is one whose setTimeouts failed
QuitsOfUnconfigured ==
  { i \in Positions("quit") : ~sessions[events[i].s].timeouts }

\* the part of C33 on createDriver: a failed setTimeouts ends the call, which
\* throws that error and returns no session, the manager still holding the
\* session built, live and without timeouts
HeldAfterFailedTimeouts ==
  \A i \in Positions("setTimeouts") :
    events[i].err # NoError =>
      /\ pc = "done" /\ result.status = "threw" /\ result.err = events[i].err
      /\ Count("createDriver.return") = 0
      /\ manager.driver = events[i].s
      /\ ~sessions[events[i].s].closed /\ sessions[events[i].s].quitCalls = 0
      /\ ~sessions[events[i].s].timeouts

\* C33 (as stated): after a build that succeeded and a setTimeouts that
\* failed, createDriver throws, manager.driver still references the live,
\* unconfigured session, and a later quit() closes it.
C33_LaterQuitCloses ==
  /\ HeldAfterFailedTimeouts
  /\ InQuit => \A i \in QuitsOfUnconfigured : sessions[events[i].s].closed

\* C33 (amended): ... and a later quit() sends it the quit command, which
\* closes it when the command succeeds; manager.driver is null afterwards
\* either way.
C33_LaterQuitReachesSession ==
  /\ HeldAfterFailedTimeouts
  /\ InQuit =>
       \A i \in QuitsOfUnconfigured :
         /\ events[i].err = NoError => sessions[events[i].s].closed
         /\ sessions[events[i].s].quitCalls = 1
         /\ pc = "done" /\ manager.driver = Null

C33_Witness ==
  /\ op.name = "quit" /\ pc = "done"
  /\ world.seen = << [name |-> "setupSuite", status |-> "threw", value |-> Null] >>
  /\ QuitsOfUnconfigured # {}
  /\ Len(sessions) = 1 /\ sessions[1].closed /\ ~sessions[1].timeouts

(***************************************************************************)
(* No command after quit                                                   *)
(***************************************************************************)
\* the commands the operations of BaseTest send to a session, quit apart
\* (the events of a control's commands name the control, not the session)
DriverCommands ==
  {"setTimeouts", "getCapabilities", "getCurrentUrl", "get", "getAllWindowHandles",
   "findElements", "executeScript"}
\* a command has been sent to this.driver, or to a control of its page, and
\* has not settled yet
PendingOnDriver ==
  pc \in {"getCurrentUrl", "get", "getAllWindowHandles", "findElements",
          "isDisplayed", "isEnabled", "popClick", "readyWait"}
QuitInvoked(s) == sessions[s].quitCalls > 0

\* C34: over any sequence of setupSuite, navigateTo, handlePopups,
\* waitForPageReady and teardownSuite, no command is sent to a session whose
\* quit has been invoked (quit itself is sent at most once): teardownSuite
\* leaves no driver, and without a driver navigateTo and waitForPageReady
\* throw 'WebDriver not initialized' and handlePopups returns, none of them
\* having sent a command.
C34_NoCommandAfterQuit ==
  /\ \A i \in 1..Len(events) :
       events[i].k \in DriverCommands => ~QuitInvoked(events[i].s)
  /\ PendingOnDriver => bt.driver # Null /\ ~QuitInvoked(bt.driver)
  /\ pc \in {"setTimeouts", "getCapabilities", "quit"} =>
       manager.driver # Null /\ ~QuitInvoked(manager.driver)
  /\ \A s \in 1..Len(sessions) : sessions[s].quitCalls <= 1
  /\ (op.name = "teardownSuite" /\ pc = "done") => bt.driver = Null
  /\ bt.driver = Null =>
       /\ op.name \in {"navigateTo", "waitForPageReady"} =>
            /\ pc = "done" /\ events = <<>>
            /\ result.status = "threw" /\ result.err = NotInitialized
       /\ op.name = "handlePopups" =>
            pc = "done" /\ events = <<>> /\ result.status = "returned"

\* after a suite was set up and torn down, waitForPageReady has thrown
C34_Witness ==
  /\ op.name = "waitForPageReady" /\ pc = "done"
  /\ result.err = NotInitialized
  /\ Len(sessions) = 1 /\ sessions[1].quitCalls = 1 /\ sessions[1].closed
  /\ sessions[1].url = U_secure

(***************************************************************************)
(* fillForm after a failed lookup                                          *)
(***************************************************************************)
Failures == { i \in 1..Len(events) : events[i].err # NoError }
FirstOf(S) == CHOOSE i \in S : \A j \in S : i <= j
\* the first command of the call to fail was the lookup of a field
LookupFailedFirst ==
  InFillForm /\ Failures # {} /\ events[FirstOf(Failures)].k = "find"
SomeFieldAt(a) == \E sel \in DOMAIN locals.at : locals.at[sel] = a

\* C35: when the lookup of a field is what fails in a fillForm call, the call
\* rejects with the 'Element not found' error of that field, and the
\* functions of the other fields are not cancelled: whatever step one of them
\* is at (lookup, clear, sendKeys) can still be taken after the rejection.
C35_RejectedNotCancelled ==
  LookupFailedFirst =>
    /\ pc = "done" /\ result.status = "threw"
    /\ result.err = ElementNotFoundFor(ByCss(events[FirstOf(Failures)].v[1]), FindTimeout)
    /\ locals.at[events[FirstOf(Failures)].v[1]] = "rejected"
    /\ SomeFieldAt("find") => ENABLED FieldFindResolves
    /\ SomeFieldAt("clear") => ENABLED FieldClearResolves
    /\ SomeFieldAt("sendKeys") => ENABLED FieldSendKeysResolves

\* the lookup of #username failed before anything else had settled, and
\* #password, empty at the call, has been filled since
C35_Witness ==
  /\ LookupFailedFirst /\ FirstOf(Failures) = 1
  /\ events[1].v = << "#username" >>
  /\ DOMAIN locals.at = Selectors
  /\ locals.at["#password"] = "resolved"
  /\ world.form["#password"] = locals.fieldMap["#password"]
  /\ Len(events) = 4 /\ events[4] = FieldEv("sendKeys", "#password", NoError)
  /\ pc = "done" /\ result.status = "threw"

(***************************************************************************)
(* An empty retry budget                                                   *)
(***************************************************************************)
\* the arguments that leave no attempt, the negative ones included
NoBudget == (-2)..0

\* C36: with maxRetries <= 0 the loops are not entered.  navigateTo, once its
\* pre-check has not short-circuited it, sends no load command and throws the
\* Error 'Failed to navigate to <url> after <maxRetries> attempts';
\* clickElement looks up and clicks nothing and throws undefined.
C36_NoAttemptWithoutBudget ==
  /\ \A mr \in NoBudget :
       /\ ~nav_loop(1, mr) /\ nav_throw(Undefined, mr) = FailedToNavigate(mr)
       /\ ~clk_loop(1, mr)
  /\ (op.name = "navigateTo" /\ op.maxRetries \in NoBudget) =>
       /\ Count("get") = 0 /\ Count("delay") = 0
       /\ pc \in {"getCurrentUrl", "done"}
       /\ (pc = "done" /\ Count("getCurrentUrl") = 1) =>
            \/ /\ result.status = "returned"
               /\ events[1].err = NoError
               /\ AlreadyOnTarget(events[1].v, op.url)
            \/ /\ result.status = "threw"
               /\ result.err = FailedToNavigate(op.maxRetries)
               /\ result.err # Undefined
  /\ (op.name = "clickElement" /\ op.maxRetries \in NoBudget) =>
       /\ pc = "done" /\ events = <<>> /\ element = Null
       /\ result.status = "threw" /\ result.err = Undefined

C36_Witness ==
  /\ op.name = "navigateTo" /\ op.maxRetries = 0 /\ pc = "done"
  /\ op.url = U_secure
  /\ Len(events) = 1 /\ events[1].k = "getCurrentUrl" /\ events[1].err = NoError
  /\ result.err = FailedToNavigate(0)

(***************************************************************************)
(* A suite whose setup failed                                              *)
(***************************************************************************)
\* a setupSuite that throws leaves driver and elementHelper as they were
\* and the manager it created in driverManager
FailedSetupKeepsFields ==
  (op'.name = "setupSuite" /\ result'.status = "threw") =>
    /\ bt'.driver = bt.driver /\ bt'.elementHelper = bt.elementHelper
    /\ bt'.driverManager = 1
\* the BaseTest as a failed setupSuite leaves it
SetupFailed == bt.driverManager = 1 /\ bt.driver = Null /\ bt.elementHelper = Null

\* (a BaseTest none of whose sessions was ever configured has had no
\* successful setupSuite)
FailedSetupTearsDown ==
  /\ (op.name = "setupSuite" /\ result.status = "threw" /\ Count("createDriver.return") = 0
        /\ \A s \in 1..Len(sessions) : ~sessions[s].timeouts) => SetupFailed
  /\ (SetupFailed /\ op.name = "teardownTest") =>
       /\ result.status # "threw"
       /\ pc = "done" => result.status = "returned" /\ Count("log.testEnd") = 1
       /\ (pc = "done" /\ ~locals.testPassed) => Count("takeScreenshot.call") = 1
  /\ (op.name = "teardownSuite" /\ pc = "done") =>
       /\ result.status = "returned"
       /\ bt.driverManager = 0 /\ bt.driver = Null /\ bt.elementHelper = Null
       /\ manager.driver = Null

\* C37 (as stated): a teardownSuite that follows a failed setupSuite has
\* closed the session the manager still held (one built but not configured).
C37_TeardownClosesHeldSession ==
  (op.name = "teardownSuite" /\ pc = "done") =>
    \A i \in QuitsOfUnconfigured : sessions[events[i].s].closed

\* C37 (amended): when setupSuite fails, driver and elementHelper stay as they
\* were (null) and driverManager stays set; a teardownTest for a failed test
\* then returns normally; a teardownSuite then sends quit to the session the
\* manager still holds, if any, which closes it when the command succeeds,
\* and resets the three fields to null.
C37_FailedSetupThenTeardown ==
  /\ [][FailedSetupKeepsFields]_vars
  /\ [](FailedSetupTearsDown)
  /\ []((op.name = "teardownSuite" /\ pc = "done") =>
          \A i \in Positions("quit") :
            /\ events[i].err = NoError => sessions[events[i].s].closed
            /\ sessions[events[i].s].quitCalls = 1)

\* setupSuite has failed at setTimeouts, teardownTest has captured the failed
\* test from the session left behind, and teardownSuite has closed it
C37_Witness ==
  /\ op.name = "teardownSuite" /\ pc = "done"
  /\ Len(sessions) = 1 /\ ~sessions[1].timeouts /\ sessions[1].closed
  /\ Len(world.files) = 1
  /\ CountOk("quit") = 1

====
